---- MODULE Spec2Model ----
(***************************************************************************)
(* A model of the parking guide: the percentage mapper, the viewport and   *)
(* marker calculation, and the main program of code.py (initialisation,    *)
(* the tick loop, cleanup), together with the ParkingGuideDisplay variant  *)
(* of the same calculations.                                               *)
(*                                                                         *)
(* Python floats are modelled as exact rationals <<n, d>> in lowest terms  *)
(* with d > 0; int() is truncation toward zero.                            *)
(***************************************************************************)
EXTENDS Integers, Sequences, FiniteSets, TLC

VARIABLES pc, hw, tick, shutdown, fn

vars == <<pc, hw, tick, shutdown, fn>>

----------------------------------------------------------------------------
(* Exact rational arithmetic standing for Python's float arithmetic.       *)

RECURSIVE GCD(_, _)
GCD(a, b) == IF b = 0 THEN a ELSE GCD(b, a % b)

Abs(x) == IF x < 0 THEN -x ELSE x

Rat(n, d) ==
    LET s == IF d < 0 THEN -1 ELSE 1
        g == GCD(Abs(n), Abs(d))
    IN  <<(s * n) \div g, (s * d) \div g>>

RInt(n) == <<n, 1>>

RAdd(a, b) == Rat(a[1] * b[2] + b[1] * a[2], a[2] * b[2])
RSub(a, b) == Rat(a[1] * b[2] - b[1] * a[2], a[2] * b[2])
RMul(a, b) == Rat(a[1] * b[1], a[2] * b[2])
RDiv(a, b) == Rat(a[1] * b[2], a[2] * b[1])

RLt(a, b) == a[1] * b[2] < b[1] * a[2]
RLe(a, b) == a[1] * b[2] <= b[1] * a[2]
RMax(a, b) == IF RLt(a, b) THEN b ELSE a
RMin(a, b) == IF RLt(b, a) THEN b ELSE a

\* Python int(x): truncation toward zero.
Trunc(a) == IF a[1] >= 0 THEN a[1] \div a[2] ELSE -((-a[1]) \div a[2])

\* Python None where a float is expected.
None == <<0, 0>>

----------------------------------------------------------------------------
(* Configuration constants of code.py.                                     *)

UPPER_RANGE_CM == 190
CONFIG_PARKED_DISTANCE_CM == 25
MAX_MATRICES == 4
MATRIX_COLUMNS_PER_UNIT == 8

TOF_READING_ERROR == -1
TOF_READING_NONE == -2
TOF_DATA_NOT_READY == -3
TOF_SENSOR_NOT_INIT == -4

\* FLOAT_COMPARISON_TOLERANCE = 0.0001
FLOAT_COMPARISON_TOLERANCE == Rat(1, 10000)
\* PHASE2_MIN_COLS_PER_ONE_PERCENT = 0.1
PHASE2_MIN_COLS_PER_ONE_PERCENT == Rat(1, 10)
\* ROUNDING_OFFSET = 0.5
ROUNDING_OFFSET == Rat(1, 2)

CONFIG_PHASE1_PADDING_COLS == 2
CONFIG_LEFT_STATIC_COLOR == "green"
CONFIG_CENTER_STATIC_COLOR == "off"
CONFIG_RIGHT_STATIC_COLOR == "green"
\* 84.5 and 90.5
CONFIG_PHASE2_LEFT_STATIC_PCT_ORIGINAL == Rat(169, 2)
CONFIG_PHASE2_RIGHT_STATIC_PCT_ORIGINAL == Rat(181, 2)
CONFIG_ZOOM_TRANSITION_THRESHOLD_PERCENT == 75
CONFIG_PHASE2_COLS_PER_ONE_PERCENT == 2
CONFIG_PRECISE_INDICATOR_COLOR == "yellow"
CONFIG_SLIDER_START_COLOR == "green"
CONFIG_SLIDER_END_COLOR_PHASE1 == "yellow"
CONFIG_SLIDER_COLOR_CHANGE_POINT_TARGET_PCT == 65
CONFIG_RECOLOR_BETWEEN_STATIC_BEHAVIOR == "use_slider_color"
CONFIG_SLIDER_COLOR_AFTER_1ST_STATIC_ZOOMED == "red"
PHASE2_ALLOW_SLIDER_OVERWRITE_TARGET == TRUE
PHASE2_SHOW_PRECISE_INDICATOR == TRUE

\* The four error sentinels, as the floats the code compares.
Sentinels ==
    { RInt(TOF_READING_ERROR), RInt(TOF_READING_NONE),
      RInt(TOF_DATA_NOT_READY), RInt(TOF_SENSOR_NOT_INIT) }

----------------------------------------------------------------------------
(* PercentageMapper.                                                       *)

\* A plausible slip: the upper bound check rejects d = R as well.
calculate_current_tof_percentage_mut(current_tof_reading_cm, upper_range_cm_config) ==
    IF RLt(current_tof_reading_cm, RInt(0)) THEN RInt(TOF_READING_ERROR)
    ELSE IF RLe(upper_range_cm_config, current_tof_reading_cm)
         THEN RInt(TOF_READING_ERROR)
    ELSE RMul(RDiv(RSub(upper_range_cm_config, current_tof_reading_cm),
                   upper_range_cm_config), RInt(100))

calculate_current_tof_percentage(current_tof_reading_cm, upper_range_cm_config) ==
    IF RLt(current_tof_reading_cm, RInt(0)) THEN RInt(TOF_READING_ERROR)
    ELSE IF RLt(upper_range_cm_config, current_tof_reading_cm)
         THEN RInt(TOF_READING_ERROR)
    ELSE IF upper_range_cm_config = RInt(0)
         THEN (IF RLt(RInt(0), current_tof_reading_cm) THEN RInt(0) ELSE RInt(100))
    ELSE LET raw_percentage ==
                 RMul(RDiv(RSub(upper_range_cm_config, current_tof_reading_cm),
                           upper_range_cm_config), RInt(100))
         IN  RMax(RInt(0), RMin(RInt(100), raw_percentage))

\* A plausible slip: the target mapper reuses the distance mapper, so an
\* out-of-range target becomes the error sentinel and R = 0 gives 100.
calculate_derived_target_percentage_mut(parked_distance_cm_config, upper_range_cm_config) ==
    calculate_current_tof_percentage(parked_distance_cm_config, upper_range_cm_config)

calculate_derived_target_percentage(parked_distance_cm_config, upper_range_cm_config) ==
    IF ~(RLe(RInt(0), parked_distance_cm_config)
         /\ RLe(parked_distance_cm_config, upper_range_cm_config))
    THEN RInt(50)
    ELSE IF upper_range_cm_config = RInt(0) THEN RInt(0)
    ELSE LET raw_percentage ==
                 RMul(RDiv(RSub(upper_range_cm_config, parked_distance_cm_config),
                           upper_range_cm_config), RInt(100))
         IN  RMax(RInt(0), RMin(RInt(100), raw_percentage))

\* ParkingGuideDisplay._calculate_current_tof_percentage
PGD_calculate_current_tof_percentage(current_tof_reading_cm, upper_range_cm_config) ==
    IF RLt(current_tof_reading_cm, RInt(0)) THEN RInt(TOF_READING_ERROR)
    ELSE IF RLt(upper_range_cm_config, current_tof_reading_cm)
         THEN RInt(TOF_READING_ERROR)
    ELSE IF upper_range_cm_config = RInt(0)
         THEN (IF RLt(RInt(0), current_tof_reading_cm) THEN RInt(0) ELSE RInt(100))
    ELSE LET raw_percentage ==
                 RMul(RDiv(RSub(upper_range_cm_config, current_tof_reading_cm),
                           upper_range_cm_config), RInt(100))
         IN  RMax(RInt(0), RMin(RInt(100), raw_percentage))

\* ParkingGuideDisplay._calculate_derived_target_percentage
PGD_calculate_derived_target_percentage(parked_distance_cm_config, upper_range_cm_config) ==
    IF parked_distance_cm_config = None
       \/ ~(RLe(RInt(0), parked_distance_cm_config)
            /\ RLe(parked_distance_cm_config, upper_range_cm_config))
    THEN RInt(50)
    ELSE IF upper_range_cm_config = RInt(0) THEN RInt(0)
    ELSE LET raw_percentage ==
                 RMul(RDiv(RSub(upper_range_cm_config, parked_distance_cm_config),
                           upper_range_cm_config), RInt(100))
         IN  RMax(RInt(0), RMin(RInt(100), raw_percentage))

----------------------------------------------------------------------------
(* ViewportCalculator and MarkerPlacer of code.py.                         *)

\* The pattern dictionary as get_pattern_display_details first builds it.
pattern_defaults(derived_target_pct, display_configs) ==
    [ left_display_col_start |-> -1, left_display_col_end |-> -1,
      left_color |-> display_configs.left_static_color,
      center_display_col_start |-> -1, center_display_col_end |-> -1,
      center_color |-> display_configs.center_static_color,
      right_display_col_start |-> -1, right_display_col_end |-> -1,
      right_color |-> display_configs.right_static_color,
      left_original_pct |-> RInt(-1),
      center_original_pct |-> derived_target_pct,
      right_original_pct |-> RInt(-1),
      viewport_original_start_pct |-> RInt(0),
      original_pct_per_display_col |-> RInt(0),
      phase2_view_coverage_pct |-> RInt(0) ]

\* A plausible slip: the edge guards on the left and right columns are missing.
get_phase1_pattern_details_mut(target_original_pct, total_display_cols, config_padding_cols, left_static_color, center_static_color, right_static_color) ==
    LET center_display_col ==
            LET c == Trunc(RMul(RDiv(target_original_pct, RInt(100)),
                                RInt(total_display_cols)))
                m == IF c < 0 THEN 0 ELSE c
            IN  IF m > total_display_cols - 1 THEN total_display_cols - 1 ELSE m
        left_col == center_display_col - config_padding_cols - 1
        right_col == center_display_col + config_padding_cols + 1
    IN  [ left_display_col_start |-> left_col,
          left_display_col_end |-> left_col,
          left_color |-> left_static_color,
          center_display_col_start |-> center_display_col,
          center_display_col_end |-> center_display_col,
          center_color |-> center_static_color,
          right_display_col_start |-> right_col,
          right_display_col_end |-> right_col,
          right_color |-> right_static_color,
          left_original_pct |->
              RMul(RDiv(RInt(left_col), RInt(total_display_cols)), RInt(100)),
          center_original_pct |-> target_original_pct,
          right_original_pct |->
              RMul(RDiv(RInt(right_col), RInt(total_display_cols)), RInt(100)) ]

\* A plausible slip: a left or right column that falls off an edge is moved
\* onto the edge column.
get_phase1_pattern_details_clipped(target_original_pct, total_display_cols, config_padding_cols, left_static_color, center_static_color, right_static_color) ==
    LET center_display_col ==
            LET c == Trunc(RMul(RDiv(target_original_pct, RInt(100)),
                                RInt(total_display_cols)))
                m == IF c < 0 THEN 0 ELSE c
            IN  IF m > total_display_cols - 1 THEN total_display_cols - 1 ELSE m
        left_raw == center_display_col - config_padding_cols - 1
        right_raw == center_display_col + config_padding_cols + 1
        left_col == IF left_raw < 0 THEN 0 ELSE left_raw
        right_col == IF right_raw > total_display_cols - 1 THEN total_display_cols - 1
                     ELSE right_raw
    IN  [ left_display_col_start |-> left_col,
          left_display_col_end |-> left_col,
          left_color |-> left_static_color,
          center_display_col_start |-> center_display_col,
          center_display_col_end |-> center_display_col,
          center_color |-> center_static_color,
          right_display_col_start |-> right_col,
          right_display_col_end |-> right_col,
          right_color |-> right_static_color,
          left_original_pct |->
              RMul(RDiv(RInt(left_col), RInt(total_display_cols)), RInt(100)),
          center_original_pct |-> target_original_pct,
          right_original_pct |->
              RMul(RDiv(RInt(right_col), RInt(total_display_cols)), RInt(100)) ]

\* _get_phase1_pattern_details: the twelve marker keys of the coarse phase.
get_phase1_pattern_details(target_original_pct, total_display_cols, config_padding_cols, left_static_color, center_static_color, right_static_color) ==
    LET center_display_col ==
            LET c == Trunc(RMul(RDiv(target_original_pct, RInt(100)),
                                RInt(total_display_cols)))
                m == IF c < 0 THEN 0 ELSE c
            IN  IF m > total_display_cols - 1 THEN total_display_cols - 1 ELSE m
        left_col == center_display_col - config_padding_cols - 1
        right_col == center_display_col + config_padding_cols + 1
        left_ok == left_col >= 0
        right_ok == right_col < total_display_cols
    IN  IF total_display_cols = 0
        THEN [ left_display_col_start |-> -1, left_display_col_end |-> -1,
               left_color |-> left_static_color,
               center_display_col_start |-> -1, center_display_col_end |-> -1,
               center_color |-> center_static_color,
               right_display_col_start |-> -1, right_display_col_end |-> -1,
               right_color |-> right_static_color,
               left_original_pct |-> RInt(-1),
               center_original_pct |-> target_original_pct,
               right_original_pct |-> RInt(-1) ]
        ELSE [ left_display_col_start |-> IF left_ok THEN left_col ELSE -1,
               left_display_col_end |-> IF left_ok THEN left_col ELSE -1,
               left_color |-> left_static_color,
               center_display_col_start |-> center_display_col,
               center_display_col_end |-> center_display_col,
               center_color |-> center_static_color,
               right_display_col_start |-> IF right_ok THEN right_col ELSE -1,
               right_display_col_end |-> IF right_ok THEN right_col ELSE -1,
               right_color |-> right_static_color,
               left_original_pct |->
                   IF left_ok
                   THEN RMul(RDiv(RInt(left_col), RInt(total_display_cols)), RInt(100))
                   ELSE RInt(-1),
               center_original_pct |-> target_original_pct,
               right_original_pct |->
                   IF right_ok
                   THEN RMul(RDiv(RInt(right_col), RInt(total_display_cols)), RInt(100))
                   ELSE RInt(-1) ]

\* center_marker_details: None, or the dictionary {'start', 'end'}.
NoCenterDetails == [none |-> TRUE, start |-> -1, end |-> -1]
CenterDetails(s, e) == [none |-> FALSE, start |-> s, end |-> e]

\* A plausible slip: a left or right marker that overlaps the center marker
\* is kept.
get_phase2_static_marker_details_mut(static_marker_original_pct, target_original_pct_for_zoom_center, total_display_cols, phase2_cols_per_one_percent_config, viewport_start_original_pct, phase2_view_coverage_pct, is_left_marker, is_right_marker, center_marker_details) ==
    LET original_pct_per_display_col == RDiv(RInt(1), phase2_cols_per_one_percent_config)
        n == Trunc(phase2_cols_per_one_percent_config)
        num_display_cols_for_static_marker == IF n < 1 THEN 1 ELSE n
        offset_from_viewport_start_pct ==
            RSub(static_marker_original_pct, viewport_start_original_pct)
        frac == RDiv(offset_from_viewport_start_pct, original_pct_per_display_col)
        raw_start ==
            IF is_left_marker THEN Trunc(frac) - num_display_cols_for_static_marker + 1
            ELSE IF is_right_marker THEN Trunc(frac)
            ELSE Trunc(RAdd(RSub(frac, RDiv(RInt(num_display_cols_for_static_marker),
                                            RInt(2))), ROUNDING_OFFSET))
        raw_end ==
            IF is_left_marker THEN Trunc(frac)
            ELSE raw_start + num_display_cols_for_static_marker - 1
        display_col_start == IF raw_start < 0 THEN 0 ELSE raw_start
        display_col_end ==
            IF raw_end > total_display_cols - 1 THEN total_display_cols - 1 ELSE raw_end
    IN  IF total_display_cols = 0 \/ RLe(phase2_cols_per_one_percent_config, RInt(0))
        THEN <<-1, -1>>
        ELSE IF ~(RLe(RSub(viewport_start_original_pct, FLOAT_COMPARISON_TOLERANCE),
                      static_marker_original_pct)
                  /\ RLt(static_marker_original_pct,
                         RAdd(RAdd(viewport_start_original_pct, phase2_view_coverage_pct),
                              FLOAT_COMPARISON_TOLERANCE)))
        THEN <<-1, -1>>
        ELSE IF display_col_start > display_col_end THEN <<-1, -1>>
        ELSE <<display_col_start, display_col_end>>

\* A plausible slip: a span that reaches over an edge of the display is
\* dropped instead of clipped.
get_phase2_static_marker_details_dropped(static_marker_original_pct, target_original_pct_for_zoom_center, total_display_cols, phase2_cols_per_one_percent_config, viewport_start_original_pct, phase2_view_coverage_pct, is_left_marker, is_right_marker, center_marker_details) ==
    LET original_pct_per_display_col == RDiv(RInt(1), phase2_cols_per_one_percent_config)
        n == Trunc(phase2_cols_per_one_percent_config)
        num_display_cols_for_static_marker == IF n < 1 THEN 1 ELSE n
        offset_from_viewport_start_pct ==
            RSub(static_marker_original_pct, viewport_start_original_pct)
        frac == RDiv(offset_from_viewport_start_pct, original_pct_per_display_col)
        raw_start ==
            IF is_left_marker THEN Trunc(frac) - num_display_cols_for_static_marker + 1
            ELSE IF is_right_marker THEN Trunc(frac)
            ELSE Trunc(RAdd(RSub(frac, RDiv(RInt(num_display_cols_for_static_marker),
                                            RInt(2))), ROUNDING_OFFSET))
        raw_end ==
            IF is_left_marker THEN Trunc(frac)
            ELSE raw_start + num_display_cols_for_static_marker - 1
        display_col_start == IF raw_start < 0 THEN 0 ELSE raw_start
        display_col_end ==
            IF raw_end > total_display_cols - 1 THEN total_display_cols - 1 ELSE raw_end
        overlap ==
            display_col_start <= center_marker_details.end
            /\ display_col_end >= center_marker_details.start
    IN  IF total_display_cols = 0 \/ RLe(phase2_cols_per_one_percent_config, RInt(0))
        THEN <<-1, -1>>
        ELSE IF ~(RLe(RSub(viewport_start_original_pct, FLOAT_COMPARISON_TOLERANCE),
                      static_marker_original_pct)
                  /\ RLt(static_marker_original_pct,
                         RAdd(RAdd(viewport_start_original_pct, phase2_view_coverage_pct),
                              FLOAT_COMPARISON_TOLERANCE)))
        THEN <<-1, -1>>
        ELSE IF raw_start < 0 \/ raw_end > total_display_cols - 1
                \/ display_col_start > display_col_end THEN <<-1, -1>>
        ELSE IF ~center_marker_details.none /\ ~(is_left_marker \/ is_right_marker)
        THEN <<display_col_start, display_col_end>>
        ELSE IF ~center_marker_details.none /\ center_marker_details.start # -1
                /\ overlap /\ (is_left_marker \/ is_right_marker)
        THEN <<-1, -1>>
        ELSE <<display_col_start, display_col_end>>

\* _get_phase2_static_marker_details: the span of one marker in zoomed phase.
get_phase2_static_marker_details(static_marker_original_pct, target_original_pct_for_zoom_center, total_display_cols, phase2_cols_per_one_percent_config, viewport_start_original_pct, phase2_view_coverage_pct, is_left_marker, is_right_marker, center_marker_details) ==
    LET original_pct_per_display_col == RDiv(RInt(1), phase2_cols_per_one_percent_config)
        n == Trunc(phase2_cols_per_one_percent_config)
        num_display_cols_for_static_marker == IF n < 1 THEN 1 ELSE n
        offset_from_viewport_start_pct ==
            RSub(static_marker_original_pct, viewport_start_original_pct)
        frac == RDiv(offset_from_viewport_start_pct, original_pct_per_display_col)
        raw_start ==
            IF is_left_marker THEN Trunc(frac) - num_display_cols_for_static_marker + 1
            ELSE IF is_right_marker THEN Trunc(frac)
            ELSE Trunc(RAdd(RSub(frac, RDiv(RInt(num_display_cols_for_static_marker),
                                            RInt(2))), ROUNDING_OFFSET))
        raw_end ==
            IF is_left_marker THEN Trunc(frac)
            ELSE raw_start + num_display_cols_for_static_marker - 1
        display_col_start == IF raw_start < 0 THEN 0 ELSE raw_start
        display_col_end ==
            IF raw_end > total_display_cols - 1 THEN total_display_cols - 1 ELSE raw_end
        overlap ==
            display_col_start <= center_marker_details.end
            /\ display_col_end >= center_marker_details.start
    IN  IF total_display_cols = 0 \/ RLe(phase2_cols_per_one_percent_config, RInt(0))
        THEN <<-1, -1>>
        ELSE IF ~(RLe(RSub(viewport_start_original_pct, FLOAT_COMPARISON_TOLERANCE),
                      static_marker_original_pct)
                  /\ RLt(static_marker_original_pct,
                         RAdd(RAdd(viewport_start_original_pct, phase2_view_coverage_pct),
                              FLOAT_COMPARISON_TOLERANCE)))
        THEN <<-1, -1>>
        ELSE IF display_col_start > display_col_end THEN <<-1, -1>>
        ELSE IF ~center_marker_details.none /\ ~(is_left_marker \/ is_right_marker)
        THEN <<display_col_start, display_col_end>>
        ELSE IF ~center_marker_details.none /\ center_marker_details.start # -1
                /\ overlap /\ (is_left_marker \/ is_right_marker)
        THEN <<-1, -1>>
        ELSE <<display_col_start, display_col_end>>

\* A plausible slip: the zoomed window start is not clamped at 0.
phase2_viewport_unclamped(current_slider_original_pct, derived_target_pct, total_display_cols, cfg_p2_cols_per_pct) ==
    LET effective_cols_per_original_percent ==
            RMax(PHASE2_MIN_COLS_PER_ONE_PERCENT, cfg_p2_cols_per_pct)
        original_pct_per_display_col == RDiv(RInt(1), effective_cols_per_original_percent)
        phase2_view_coverage_pct ==
            RMul(RInt(total_display_cols), original_pct_per_display_col)
    IN  [ effective_cols_per_original_percent |-> effective_cols_per_original_percent,
          original_pct_per_display_col |-> original_pct_per_display_col,
          phase2_view_coverage_pct |-> phase2_view_coverage_pct,
          viewport_original_start_pct |->
              RSub(derived_target_pct, RDiv(phase2_view_coverage_pct, RInt(2))) ]

\* A plausible slip: the zoomed window is centred on the live progress
\* instead of the target.
phase2_viewport_recentred(current_slider_original_pct, derived_target_pct, total_display_cols, cfg_p2_cols_per_pct) ==
    LET effective_cols_per_original_percent ==
            RMax(PHASE2_MIN_COLS_PER_ONE_PERCENT, cfg_p2_cols_per_pct)
        original_pct_per_display_col == RDiv(RInt(1), effective_cols_per_original_percent)
        phase2_view_coverage_pct ==
            RMul(RInt(total_display_cols), original_pct_per_display_col)
    IN  [ effective_cols_per_original_percent |-> effective_cols_per_original_percent,
          original_pct_per_display_col |-> original_pct_per_display_col,
          phase2_view_coverage_pct |-> phase2_view_coverage_pct,
          viewport_original_start_pct |->
              RMax(RInt(0), RSub(current_slider_original_pct,
                                 RDiv(phase2_view_coverage_pct, RInt(2)))) ]

\* The zoomed window of get_pattern_display_details.
phase2_viewport(current_slider_original_pct, derived_target_pct, total_display_cols, cfg_p2_cols_per_pct) ==
    LET effective_cols_per_original_percent ==
            RMax(PHASE2_MIN_COLS_PER_ONE_PERCENT, cfg_p2_cols_per_pct)
        original_pct_per_display_col == RDiv(RInt(1), effective_cols_per_original_percent)
        phase2_view_coverage_pct ==
            RMul(RInt(total_display_cols), original_pct_per_display_col)
    IN  [ effective_cols_per_original_percent |-> effective_cols_per_original_percent,
          original_pct_per_display_col |-> original_pct_per_display_col,
          phase2_view_coverage_pct |-> phase2_view_coverage_pct,
          viewport_original_start_pct |->
              RMax(RInt(0), RSub(derived_target_pct,
                                 RDiv(phase2_view_coverage_pct, RInt(2)))) ]

\* The three zoomed marker spans for given left and right marker percents:
\* the center first, then left and right against the center's span.
phase2_markers(pattern, vp, left_pct, right_pct, derived_target_pct, total_display_cols) ==
    LET c == get_phase2_static_marker_details(
                 derived_target_pct, derived_target_pct, total_display_cols,
                 vp.effective_cols_per_original_percent, vp.viewport_original_start_pct,
                 vp.phase2_view_coverage_pct, FALSE, FALSE, NoCenterDetails)
        center_marker_details_for_overlap_check == CenterDetails(c[1], c[2])
        l == get_phase2_static_marker_details(
                 left_pct, derived_target_pct, total_display_cols,
                 vp.effective_cols_per_original_percent, vp.viewport_original_start_pct,
                 vp.phase2_view_coverage_pct, TRUE, FALSE,
                 center_marker_details_for_overlap_check)
        r == get_phase2_static_marker_details(
                 right_pct, derived_target_pct, total_display_cols,
                 vp.effective_cols_per_original_percent, vp.viewport_original_start_pct,
                 vp.phase2_view_coverage_pct, FALSE, TRUE,
                 center_marker_details_for_overlap_check)
    IN  [pattern EXCEPT
            !.viewport_original_start_pct = vp.viewport_original_start_pct,
            !.original_pct_per_display_col = vp.original_pct_per_display_col,
            !.phase2_view_coverage_pct = vp.phase2_view_coverage_pct,
            !.center_display_col_start = c[1], !.center_display_col_end = c[2],
            !.left_original_pct = left_pct,
            !.left_display_col_start = l[1], !.left_display_col_end = l[2],
            !.right_original_pct = right_pct,
            !.right_display_col_start = r[1], !.right_display_col_end = r[2]]

\* pattern.update(phase1_details): the twelve marker keys are overwritten.
pattern_update(pattern, d) ==
    [pattern EXCEPT
        !.left_display_col_start = d.left_display_col_start,
        !.left_display_col_end = d.left_display_col_end,
        !.left_color = d.left_color,
        !.center_display_col_start = d.center_display_col_start,
        !.center_display_col_end = d.center_display_col_end,
        !.center_color = d.center_color,
        !.right_display_col_start = d.right_display_col_start,
        !.right_display_col_end = d.right_display_col_end,
        !.right_color = d.right_color,
        !.left_original_pct = d.left_original_pct,
        !.center_original_pct = d.center_original_pct,
        !.right_original_pct = d.right_original_pct]

get_pattern_display_details(current_slider_original_pct, is_phase2_active, derived_target_pct, total_display_cols, display_configs) ==
    LET pattern == pattern_defaults(derived_target_pct, display_configs)
    IN  IF total_display_cols = 0 THEN pattern
        ELSE IF is_phase2_active
        THEN phase2_markers(pattern,
                            phase2_viewport(current_slider_original_pct, derived_target_pct,
                                            total_display_cols,
                                            display_configs.phase2_cols_per_one_percent),
                            display_configs.phase2_left_static_pct,
                            display_configs.phase2_right_static_pct,
                            derived_target_pct, total_display_cols)
        ELSE [pattern_update(pattern,
                  get_phase1_pattern_details(
                      derived_target_pct, total_display_cols,
                      display_configs.phase1_padding_cols,
                      display_configs.left_static_color,
                      display_configs.center_static_color,
                      display_configs.right_static_color))
              EXCEPT !.original_pct_per_display_col =
                         RDiv(RInt(100), RInt(total_display_cols))]

\* ParkingGuideDisplay._get_pattern_display_details: the left and right marker
\* percents are the target minus and plus CONFIG_PHASE2_STATIC_MARKER_OFFSET_PCT.
PGD_get_pattern_display_details(current_slider_original_pct, is_phase2_active, derived_target_pct, total_cols, cfg) ==
    LET pattern == pattern_defaults(derived_target_pct, cfg)
    IN  IF total_cols = 0 THEN pattern
        ELSE IF is_phase2_active
        THEN phase2_markers(pattern,
                            phase2_viewport(current_slider_original_pct, derived_target_pct,
                                            total_cols, cfg.phase2_cols_per_one_percent),
                            RSub(derived_target_pct, cfg.phase2_static_marker_offset_pct),
                            RAdd(derived_target_pct, cfg.phase2_static_marker_offset_pct),
                            derived_target_pct, total_cols)
        ELSE [pattern_update(pattern,
                  get_phase1_pattern_details(
                      derived_target_pct, total_cols, cfg.phase1_padding_cols,
                      cfg.left_static_color, cfg.center_static_color,
                      cfg.right_static_color))
              EXCEPT !.original_pct_per_display_col = RDiv(RInt(100), RInt(total_cols))]

----------------------------------------------------------------------------
(* SliderColorPolicy of code.py.                                           *)

\* render_configs of main.
RenderConfigs ==
    [ slider_start_color |-> CONFIG_SLIDER_START_COLOR,
      slider_end_color_phase1 |-> CONFIG_SLIDER_END_COLOR_PHASE1,
      slider_color_change_point_target_pct |->
          RInt(CONFIG_SLIDER_COLOR_CHANGE_POINT_TARGET_PCT),
      recolor_between_static_behavior |-> CONFIG_RECOLOR_BETWEEN_STATIC_BEHAVIOR,
      slider_color_after_1st_static_zoomed |-> CONFIG_SLIDER_COLOR_AFTER_1ST_STATIC_ZOOMED,
      precise_indicator_color |-> CONFIG_PRECISE_INDICATOR_COLOR,
      phase2_allow_slider_overwrite_target |-> PHASE2_ALLOW_SLIDER_OVERWRITE_TARGET,
      phase2_show_precise_indicator |-> PHASE2_SHOW_PRECISE_INDICATOR,
      zoom_transition_threshold_percent |-> RInt(CONFIG_ZOOM_TRANSITION_THRESHOLD_PERCENT) ]

\* The change point is a number in every configuration modelled, so the
\* isinstance(..., str) test is false.
calculate_phase1_slider_color_change_threshold_original_pct(center_marker_original_pct, slider_color_change_point_target_pct_config, derived_target_pct_overall) ==
    IF center_marker_original_pct # RInt(-1)
    THEN RMax(RInt(0), RMul(RDiv(slider_color_change_point_target_pct_config, RInt(100)),
                            center_marker_original_pct))
    ELSE RMul(RDiv(RInt(50), RInt(100)), derived_target_pct_overall)

\* A plausible slip: the coarse rule changes colour at the threshold itself.
get_current_progress_color_mut(current_slider_original_pct, is_phase2, phase1_color_change_thresh_pct, pattern_details, render_configs) ==
    IF is_phase2
    THEN IF pattern_details.left_original_pct # RInt(-1)
            /\ RLt(pattern_details.left_original_pct, current_slider_original_pct)
         THEN render_configs.slider_color_after_1st_static_zoomed
         ELSE IF RLe(phase1_color_change_thresh_pct, current_slider_original_pct)
              THEN render_configs.slider_end_color_phase1
              ELSE render_configs.slider_start_color
    ELSE IF RLe(phase1_color_change_thresh_pct, current_slider_original_pct)
         THEN render_configs.slider_end_color_phase1
         ELSE render_configs.slider_start_color

get_current_progress_color(current_slider_original_pct, is_phase2, phase1_color_change_thresh_pct, pattern_details, render_configs) ==
    IF is_phase2
    THEN LET phase2_initial_color ==
                 IF RLe(phase1_color_change_thresh_pct, current_slider_original_pct)
                 THEN render_configs.slider_end_color_phase1
                 ELSE render_configs.slider_start_color
             first_static_original_pct_phase2 == pattern_details.left_original_pct
         IN  IF first_static_original_pct_phase2 # RInt(-1)
                /\ RLt(first_static_original_pct_phase2, current_slider_original_pct)
             THEN render_configs.slider_color_after_1st_static_zoomed
             ELSE phase2_initial_color
    ELSE IF RLt(phase1_color_change_thresh_pct, current_slider_original_pct)
         THEN render_configs.slider_end_color_phase1
         ELSE render_configs.slider_start_color

----------------------------------------------------------------------------
(* FrameCompositor: render_display of code.py and _render_matrix_display   *)
(* of the class.  A frame is the sequence display_column_colors, column    *)
(* idx of the code at position idx + 1.                                    *)

\* _determine_slider_fill_color: the colour of a column filled by the slider.
determine_slider_fill_color(current_slider_original_pct, original_pct_for_this_col_start, is_phase2, phase1_color_change_thresh_pct, pattern_details, render_configs) ==
    IF is_phase2
    THEN get_current_progress_color(current_slider_original_pct, is_phase2,
             phase1_color_change_thresh_pct, pattern_details, render_configs)
    ELSE IF RLe(phase1_color_change_thresh_pct, original_pct_for_this_col_start)
         THEN render_configs.slider_end_color_phase1
         ELSE render_configs.slider_start_color

\* A plausible slip: a column counts as filled up to and including the
\* column that holds the progress.
is_filled_by_slider_mut(display_col_idx, current_slider_original_pct, is_phase2, pattern_details) ==
    LET viewport_original_start_pct == pattern_details.viewport_original_start_pct
        original_pct_per_display_col == pattern_details.original_pct_per_display_col
    IN  IF is_phase2
        THEN /\ RLt(viewport_original_start_pct, current_slider_original_pct)
             /\ RLt(RInt(0), original_pct_per_display_col)
             /\ display_col_idx <=
                    Trunc(RDiv(RSub(current_slider_original_pct, viewport_original_start_pct),
                               original_pct_per_display_col))
        ELSE RLe(RAdd(viewport_original_start_pct,
                      RMul(RInt(display_col_idx), original_pct_per_display_col)),
                 current_slider_original_pct)

\* render_display: whether the slider fills column display_col_idx.
is_filled_by_slider(display_col_idx, current_slider_original_pct, is_phase2, pattern_details) ==
    LET viewport_original_start_pct == pattern_details.viewport_original_start_pct
        original_pct_per_display_col == pattern_details.original_pct_per_display_col
    IN  IF is_phase2
        THEN /\ RLt(viewport_original_start_pct, current_slider_original_pct)
             /\ RLt(RInt(0), original_pct_per_display_col)
             /\ display_col_idx <
                    Trunc(RDiv(RSub(current_slider_original_pct, viewport_original_start_pct),
                               original_pct_per_display_col))
        ELSE RLt(RAdd(viewport_original_start_pct,
                      RMul(RInt(display_col_idx), original_pct_per_display_col)),
                 current_slider_original_pct)

\* render_display: the colour of column display_col_idx after the slider loop.
slider_column_color(display_col_idx, current_slider_original_pct, is_phase2, thresh, pattern_details, render_configs) ==
    LET viewport_original_start_pct == pattern_details.viewport_original_start_pct
        original_pct_per_display_col == pattern_details.original_pct_per_display_col
        original_pct_for_this_col_start ==
            RAdd(viewport_original_start_pct,
                 RMul(RInt(display_col_idx), original_pct_per_display_col))
        center_original_pct_of_display_col ==
            RAdd(original_pct_for_this_col_start, RDiv(original_pct_per_display_col, RInt(2)))
        viewport_effective_end_pct ==
            RAdd(viewport_original_start_pct, pattern_details.phase2_view_coverage_pct)
        outside ==
            \/ RLt(center_original_pct_of_display_col,
                   RSub(viewport_original_start_pct, FLOAT_COMPARISON_TOLERANCE))
            \/ RLt(RAdd(viewport_effective_end_pct, FLOAT_COMPARISON_TOLERANCE),
                   center_original_pct_of_display_col)
        is_between_left_and_center ==
            /\ pattern_details.left_display_col_start # -1
            /\ display_col_idx > pattern_details.left_display_col_end
            /\ pattern_details.center_display_col_start # -1
            /\ display_col_idx < pattern_details.center_display_col_start
        is_between_center_and_right ==
            /\ pattern_details.right_display_col_start # -1
            /\ pattern_details.center_display_col_start # -1
            /\ display_col_idx > pattern_details.center_display_col_end
            /\ display_col_idx < pattern_details.right_display_col_start
    IN  IF is_phase2 /\ outside THEN "off"
        ELSE IF ~is_filled_by_slider(display_col_idx, current_slider_original_pct,
                                     is_phase2, pattern_details)
        THEN "off"
        ELSE IF render_configs.recolor_between_static_behavior # "use_slider_color"
                /\ (is_between_left_and_center \/ is_between_center_and_right)
        THEN render_configs.recolor_between_static_behavior
        ELSE determine_slider_fill_color(current_slider_original_pct,
                 original_pct_for_this_col_start, is_phase2, thresh,
                 pattern_details, render_configs)

\* Whether column col_idx lies in a marker span that render_display applies.
InMarker(col_idx, start_col, end_col, total_display_cols) ==
    /\ start_col # -1 /\ end_col # -1
    /\ start_col <= col_idx /\ col_idx <= end_col
    /\ 0 <= col_idx /\ col_idx < total_display_cols

\* A plausible slip: the center marker overwrites the slider in zoomed phase
\* too.
marker_column_color_mut(col_idx, base, is_phase2, total_display_cols, pattern_details, render_configs) ==
    IF InMarker(col_idx, pattern_details.center_display_col_start,
                pattern_details.center_display_col_end, total_display_cols)
    THEN pattern_details.center_color
    ELSE IF InMarker(col_idx, pattern_details.right_display_col_start,
                     pattern_details.right_display_col_end, total_display_cols)
    THEN pattern_details.right_color
    ELSE IF InMarker(col_idx, pattern_details.left_display_col_start,
                     pattern_details.left_display_col_end, total_display_cols)
    THEN pattern_details.left_color
    ELSE base

\* render_display: the markers applied over the slider colour of a column, in
\* the order left, right, center.
marker_column_color(col_idx, base, is_phase2, total_display_cols, pattern_details, render_configs) ==
    LET after_left ==
            IF InMarker(col_idx, pattern_details.left_display_col_start,
                        pattern_details.left_display_col_end, total_display_cols)
            THEN pattern_details.left_color ELSE base
        after_right ==
            IF InMarker(col_idx, pattern_details.right_display_col_start,
                        pattern_details.right_display_col_end, total_display_cols)
            THEN pattern_details.right_color ELSE after_left
    IN  IF InMarker(col_idx, pattern_details.center_display_col_start,
                    pattern_details.center_display_col_end, total_display_cols)
        THEN IF is_phase2 /\ render_configs.phase2_allow_slider_overwrite_target
             THEN (IF after_right = "off" THEN pattern_details.center_color ELSE after_right)
             ELSE pattern_details.center_color
        ELSE after_right

\* render_display: the column of the precise indicator, -1 when there is none.
precise_indicator_display_col_idx(current_slider_original_pct, is_phase2, total_display_cols, pattern_details, render_configs) ==
    LET viewport_original_start_pct == pattern_details.viewport_original_start_pct
        original_pct_per_display_col == pattern_details.original_pct_per_display_col
        raw == Trunc(RDiv(RSub(current_slider_original_pct, viewport_original_start_pct),
                          original_pct_per_display_col))
        hi == IF raw > total_display_cols - 1 THEN total_display_cols - 1 ELSE raw
    IN  IF is_phase2 /\ render_configs.phase2_show_precise_indicator
           /\ RLe(RSub(viewport_original_start_pct, FLOAT_COMPARISON_TOLERANCE),
                  current_slider_original_pct)
           /\ RLt(current_slider_original_pct,
                  RAdd(RAdd(viewport_original_start_pct,
                            pattern_details.phase2_view_coverage_pct),
                       FLOAT_COMPARISON_TOLERANCE))
           /\ RLt(RInt(0), original_pct_per_display_col)
        THEN (IF hi < 0 THEN 0 ELSE hi)
        ELSE -1

\* render_display: display_column_colors as it stands before the columns are
\* written to the matrices.
display_column_colors(current_slider_original_pct, derived_target_pct, total_display_cols, pattern_details, render_configs) ==
    LET is_phase2 == RLe(render_configs.zoom_transition_threshold_percent,
                         current_slider_original_pct)
        thresh == calculate_phase1_slider_color_change_threshold_original_pct(
                      pattern_details.center_original_pct,
                      render_configs.slider_color_change_point_target_pct,
                      derived_target_pct)
        precise == precise_indicator_display_col_idx(current_slider_original_pct,
                       is_phase2, total_display_cols, pattern_details, render_configs)
    IN  [ i \in 1..total_display_cols |->
            IF precise = i - 1 THEN render_configs.precise_indicator_color
            ELSE marker_column_color(i - 1,
                     slider_column_color(i - 1, current_slider_original_pct, is_phase2,
                                         thresh, pattern_details, render_configs),
                     is_phase2, total_display_cols, pattern_details, render_configs) ]

\* ParkingGuideDisplay._render_matrix_display: a marker is applied when its
\* start is set.
PGD_InMarker(i, start, end, total_cols) ==
    start # -1 /\ start <= i /\ i <= end /\ 0 <= i /\ i < total_cols

\* ParkingGuideDisplay._render_matrix_display: the colour of column idx after
\* the slider loop.
PGD_slider_column_color(idx, current_slider_pct, is_phase2, p1_color_thresh_pct, pattern_details, cfg) ==
    IF is_filled_by_slider(idx, current_slider_pct, is_phase2, pattern_details)
    THEN determine_slider_fill_color(current_slider_pct,
             RAdd(pattern_details.viewport_original_start_pct,
                  RMul(RInt(idx), pattern_details.original_pct_per_display_col)),
             is_phase2, p1_color_thresh_pct, pattern_details, cfg)
    ELSE "off"

\* ParkingGuideDisplay._render_matrix_display: the markers applied over the
\* slider colour of a column, in the order left, right, center.
PGD_marker_column_color(i, base, is_phase2, total_cols, pattern_details, cfg) ==
    LET after_left ==
            IF PGD_InMarker(i, pattern_details.left_display_col_start,
                            pattern_details.left_display_col_end, total_cols)
            THEN pattern_details.left_color ELSE base
        after_right ==
            IF PGD_InMarker(i, pattern_details.right_display_col_start,
                            pattern_details.right_display_col_end, total_cols)
            THEN pattern_details.right_color ELSE after_left
    IN  IF PGD_InMarker(i, pattern_details.center_display_col_start,
                        pattern_details.center_display_col_end, total_cols)
        THEN IF is_phase2 /\ cfg.phase2_allow_slider_overwrite_target
             THEN (IF after_right = "off" THEN pattern_details.center_color
                   ELSE after_right)
             ELSE pattern_details.center_color
        ELSE after_right

\* ParkingGuideDisplay._render_matrix_display: the column the precise
\* indicator is written to, -1 when none is: int() of the progress into the
\* viewport in columns, used when it is a column of the display.
PGD_indicator_idx(current_slider_pct, is_phase2, total_cols, pattern_details, cfg) ==
    LET pct_per_col == pattern_details.original_pct_per_display_col
        indicator_idx ==
            Trunc(RDiv(RSub(current_slider_pct,
                            pattern_details.viewport_original_start_pct), pct_per_col))
    IN  IF is_phase2 /\ cfg.phase2_show_precise_indicator /\ RLt(RInt(0), pct_per_col)
           /\ 0 <= indicator_idx /\ indicator_idx < total_cols
        THEN indicator_idx
        ELSE -1

\* ParkingGuideDisplay._render_matrix_display: colors as it stands before the
\* columns are written to the matrices.  cfg holds the class's configuration
\* under the names of render_configs.
PGD_display_column_colors(current_slider_pct, derived_target_pct, total_cols, pattern_details, cfg) ==
    LET is_phase2 == RLe(cfg.zoom_transition_threshold_percent, current_slider_pct)
        p1_color_thresh_pct ==
            calculate_phase1_slider_color_change_threshold_original_pct(
                pattern_details.center_original_pct,
                cfg.slider_color_change_point_target_pct, derived_target_pct)
        indicator_idx == PGD_indicator_idx(current_slider_pct, is_phase2, total_cols,
                                           pattern_details, cfg)
    IN  [ i \in 1..total_cols |->
            IF indicator_idx = i - 1 THEN cfg.precise_indicator_color
            ELSE PGD_marker_column_color(i - 1,
                     PGD_slider_column_color(i - 1, current_slider_pct, is_phase2,
                                             p1_color_thresh_pct, pattern_details, cfg),
                     is_phase2, total_cols, pattern_details, cfg) ]

----------------------------------------------------------------------------
(* Bounds of the checked input sets.                                       *)

MaxRangeCm == 3
TargetGrid == 8
MaxMatrices == 2
MaxPad == 2

\* Values the variables of the main program hold while only functions are applied.
PcIdle == "harness"
HwIdle == [idle |-> TRUE]
TickIdle == [ran |-> FALSE]
ShutdownIdle == [cause |-> "none", steps |-> {}, failed |-> {}]
FnIdle == [op |-> "idle"]

----------------------------------------------------------------------------
(* The percentage mappers applied to bounded inputs.                       *)

RangeInputs == {RInt(r) : r \in 0..MaxRangeCm} \cup {RInt(UPPER_RANGE_CM)}

DistanceInputs ==
    {Rat(k, 2) : k \in (-3)..(2 * MaxRangeCm + 3)}
    \cup {RInt(CONFIG_PARKED_DISTANCE_CM), RInt(40), RInt(UPPER_RANGE_CM),
          RInt(UPPER_RANGE_CM + 1)}

InitPct ==
    /\ pc = PcIdle /\ hw = HwIdle /\ tick = TickIdle /\ shutdown = ShutdownIdle
    /\ fn \in [op : {"input"}, d : DistanceInputs \cup {None}, R : RangeInputs,
               out : {None}]

ApplyCurrent ==
    /\ fn.op = "input" /\ fn.d # None
    /\ fn' = [fn EXCEPT !.op = "current",
                        !.out = calculate_current_tof_percentage(fn.d, fn.R)]
    /\ UNCHANGED <<pc, hw, tick, shutdown>>

ApplyDerived ==
    /\ fn.op = "input" /\ fn.d # None
    /\ fn' = [fn EXCEPT !.op = "derived",
                        !.out = calculate_derived_target_percentage(fn.d, fn.R)]
    /\ UNCHANGED <<pc, hw, tick, shutdown>>

ApplyCurrentPGD ==
    /\ fn.op = "input" /\ fn.d # None
    /\ fn' = [fn EXCEPT !.op = "PGD_current",
                        !.out = PGD_calculate_current_tof_percentage(fn.d, fn.R)]
    /\ UNCHANGED <<pc, hw, tick, shutdown>>

ApplyDerivedPGD ==
    /\ fn.op = "input"
    /\ fn' = [fn EXCEPT !.op = "PGD_derived",
                        !.out = PGD_calculate_derived_target_percentage(fn.d, fn.R)]
    /\ UNCHANGED <<pc, hw, tick, shutdown>>

NextPct == ApplyCurrent \/ ApplyDerived \/ ApplyCurrentPGD \/ ApplyDerivedPGD

SpecPct == InitPct /\ [][NextPct]_vars

InUnit(x) == RLe(RInt(0), x) /\ RLe(x, RInt(100))

\* 100*(R-d)/R, written without the code's guards and clamp.
Linear(d, R) == Rat(100 * (R[1] * d[2] - d[1] * R[2]), R[1] * d[2])

\* C6: for R > 0 and 0 <= d <= R the distance mapper (function and class
\* method) returns 100*(R-d)/R, a value in [0,100], non-increasing in d; for
\* d < 0 and d > R it returns the error sentinel and never a value in [0,100].
C6_PercentageMapper ==
    fn.op \in {"current", "PGD_current"} =>
        LET d == fn.d
            R == fn.R
            f(x) == IF fn.op = "current"
                    THEN calculate_current_tof_percentage(x, R)
                    ELSE PGD_calculate_current_tof_percentage(x, R)
        IN  /\ (RLt(RInt(0), R) /\ RLe(RInt(0), d) /\ RLe(d, R)) =>
                  /\ fn.out = Linear(d, R)
                  /\ InUnit(fn.out)
                  /\ \A d2 \in DistanceInputs :
                        (RLe(d, d2) /\ RLe(d2, R)) => RLe(f(d2), fn.out)
            /\ (RLt(d, RInt(0)) \/ RLt(R, d)) =>
                  /\ fn.out = RInt(TOF_READING_ERROR)
                  /\ ~InUnit(fn.out)

C6_Witness ==
    /\ fn.op = "current" /\ fn.R = RInt(UPPER_RANGE_CM) /\ fn.d = RInt(40)
    /\ fn.out = Rat(1500, 19)

TargetOutside(t, R) == t = None \/ RLt(t, RInt(0)) \/ RLt(R, t)

\* C7 as stated: the target mapper returns 50 for every target outside
\* [0,R], and for every target inside [0,R] the value of the distance mapper,
\* for every R >= 0 including R = 0.
C7_Original ==
    fn.op \in {"derived", "PGD_derived"} =>
        IF TargetOutside(fn.d, fn.R)
        THEN fn.out = RInt(50) /\ fn.out \notin Sentinels
        ELSE fn.out = calculate_current_tof_percentage(fn.d, fn.R)

\* C7 amended: 50 for every target outside [0,R]; the distance mapper's value
\* for every target inside [0,R] when R > 0; at R = 0 (target 0) it returns 0,
\* where the distance mapper returns 100.
C7_DerivedTarget ==
    fn.op \in {"derived", "PGD_derived"} =>
        IF TargetOutside(fn.d, fn.R)
        THEN fn.out = RInt(50) /\ fn.out \notin Sentinels
        ELSE IF RLt(RInt(0), fn.R)
        THEN fn.out = calculate_current_tof_percentage(fn.d, fn.R)
        ELSE /\ fn.out = RInt(0)
             /\ calculate_current_tof_percentage(fn.d, fn.R) = RInt(100)

C7_Witness ==
    /\ fn.op = "derived" /\ fn.R = RInt(0) /\ fn.d = RInt(0) /\ fn.out = RInt(0)

----------------------------------------------------------------------------
(* The pattern calculation applied tick after tick to bounded inputs: a    *)
(* configuration drawn at the start, then one call per tick with the phase *)
(* computed from that tick's progress as main and update compute it.       *)

TargetInputs ==
    {Rat(100 * k, TargetGrid) : k \in 0..TargetGrid}
    \cup {calculate_derived_target_percentage(RInt(CONFIG_PARKED_DISTANCE_CM),
                                              RInt(UPPER_RANGE_CM))}

ColumnInputs == {1, 3} \cup {m * MATRIX_COLUMNS_PER_UNIT : m \in 1..MaxMatrices}

DensityInputs ==
    {Rat(1, 20), Rat(1, 2), RInt(CONFIG_PHASE2_COLS_PER_ONE_PERCENT), RInt(3)}

PaddingInputs == {0, MaxPad}

ProgressInputs ==
    {RInt(0), RInt(50), Rat(149, 2), RInt(CONFIG_ZOOM_TRANSITION_THRESHOLD_PERCENT),
     Rat(1500, 19), RInt(86), RInt(100)}

\* pattern_display_configs of main, with the padding and the zoom density drawn
\* from the inputs; phase2_static_marker_offset_pct is the class's
\* CONFIG_PHASE2_STATIC_MARKER_OFFSET_PCT (default 3.0).
DisplayConfigs(pad, density) ==
    [ phase1_padding_cols |-> pad,
      left_static_color |-> CONFIG_LEFT_STATIC_COLOR,
      center_static_color |-> CONFIG_CENTER_STATIC_COLOR,
      right_static_color |-> CONFIG_RIGHT_STATIC_COLOR,
      phase2_left_static_pct |-> CONFIG_PHASE2_LEFT_STATIC_PCT_ORIGINAL,
      phase2_right_static_pct |-> CONFIG_PHASE2_RIGHT_STATIC_PCT_ORIGINAL,
      phase2_cols_per_one_percent |-> density,
      phase2_static_marker_offset_pct |-> RInt(3) ]

\* is_phase2_active = progress >= CONFIG_ZOOM_TRANSITION_THRESHOLD_PERCENT
\* A plausible slip: a strict comparison.
is_phase2_active_mut(effective_progress_for_pattern) ==
    RLt(RInt(CONFIG_ZOOM_TRANSITION_THRESHOLD_PERCENT), effective_progress_for_pattern)

\* main and update: the phase of a tick.
is_phase2_active(effective_progress_for_pattern) ==
    RLe(RInt(CONFIG_ZOOM_TRANSITION_THRESHOLD_PERCENT), effective_progress_for_pattern)

InitPattern ==
    /\ pc = PcIdle /\ hw = HwIdle /\ tick = TickIdle /\ shutdown = ShutdownIdle
    /\ \E t \in TargetInputs, c \in ColumnInputs, pad \in PaddingInputs,
          dens \in DensityInputs :
          fn = [ op |-> "config", target |-> t, cols |-> c,
                 cfg |-> DisplayConfigs(pad, dens),
                 progress |-> None, prev_progress |-> None, is_phase2 |-> FALSE,
                 pattern |-> pattern_defaults(t, DisplayConfigs(pad, dens)) ]

CallPattern ==
    /\ fn.op \in {"config", "pattern"}
    /\ \E p \in ProgressInputs :
          fn' = [fn EXCEPT
                    !.op = "pattern", !.progress = p, !.prev_progress = fn.progress,
                    !.is_phase2 = is_phase2_active(p),
                    !.pattern = get_pattern_display_details(
                                    p, is_phase2_active(p), fn.target, fn.cols, fn.cfg)]
    /\ UNCHANGED <<pc, hw, tick, shutdown>>

CallPatternPGD ==
    /\ fn.op \in {"config", "PGD_pattern"}
    /\ \E p \in ProgressInputs :
          fn' = [fn EXCEPT
                    !.op = "PGD_pattern", !.progress = p, !.prev_progress = fn.progress,
                    !.is_phase2 = is_phase2_active(p),
                    !.pattern = PGD_get_pattern_display_details(
                                    p, is_phase2_active(p), fn.target, fn.cols, fn.cfg)]
    /\ UNCHANGED <<pc, hw, tick, shutdown>>

NextPattern == CallPattern \/ CallPatternPGD

SpecPattern == InitPattern /\ [][NextPattern]_vars

PatternComputed == fn.op \in {"pattern", "PGD_pattern"}

\* C8 as stated: every window, coarse or zoomed, has coverage_pct =
\* total_columns * pct_per_col and start_pct >= 0; a coarse window has
\* start_pct = 0 and pct_per_col * total_columns = 100.
C8_Original ==
    PatternComputed =>
        LET w == fn.pattern
        IN  /\ w.phase2_view_coverage_pct =
                   RMul(RInt(fn.cols), w.original_pct_per_display_col)
            /\ RLe(RInt(0), w.viewport_original_start_pct)
            /\ ~fn.is_phase2 =>
                   /\ w.viewport_original_start_pct = RInt(0)
                   /\ RMul(w.original_pct_per_display_col, RInt(fn.cols)) = RInt(100)

\* C8 amended: a zoomed window has coverage_pct = total_columns * pct_per_col
\* and start_pct >= 0; a coarse window has start_pct = 0 and
\* pct_per_col * total_columns = 100, and its coverage_pct is left at 0.
C8_ViewportWindow ==
    PatternComputed =>
        LET w == fn.pattern
        IN  IF fn.is_phase2
            THEN /\ w.phase2_view_coverage_pct =
                        RMul(RInt(fn.cols), w.original_pct_per_display_col)
                 /\ RLe(RInt(0), w.viewport_original_start_pct)
            ELSE /\ w.viewport_original_start_pct = RInt(0)
                 /\ RMul(w.original_pct_per_display_col, RInt(fn.cols)) = RInt(100)
                 /\ w.phase2_view_coverage_pct = RInt(0)

C8_Witness ==
    /\ fn.op = "pattern" /\ ~fn.is_phase2 /\ fn.cols = 2 * MATRIX_COLUMNS_PER_UNIT
    /\ fn.pattern.phase2_view_coverage_pct = RInt(0)
    /\ fn.pattern.original_pct_per_display_col = Rat(25, 4)

\* The zoomed window as the claim gives it, from the target and the configuration.
ClaimedCoverage == RDiv(RInt(fn.cols),
                        RMax(PHASE2_MIN_COLS_PER_ONE_PERCENT,
                             fn.cfg.phase2_cols_per_one_percent))
ClaimedStart == RMax(RInt(0), RSub(fn.target, RDiv(ClaimedCoverage, RInt(2))))

C9_Window ==
    (PatternComputed /\ fn.is_phase2) =>
        /\ fn.pattern.phase2_view_coverage_pct = ClaimedCoverage
        /\ fn.pattern.viewport_original_start_pct = ClaimedStart
        /\ RLe(fn.pattern.viewport_original_start_pct, fn.target)
        /\ RLe(fn.target, RAdd(fn.pattern.viewport_original_start_pct,
                               fn.pattern.phase2_view_coverage_pct))

C9_Step ==
    (PatternComputed /\ fn.is_phase2 /\ fn'.op = fn.op /\ fn'.is_phase2
        /\ fn'.target = fn.target)
    => fn'.pattern = fn.pattern

\* C9: the zoomed window is coverage = total_columns / max(min_density,
\* cols_per_percent), start = max(0, target - coverage/2), which contains the
\* target; from one zoomed tick to the next with the same target, whatever the
\* progress values, the window and the three marker spans are identical.
C9_ZoomedWindowStatic == []C9_Window /\ [][C9_Step]_vars

C9_Witness ==
    /\ fn.op = "pattern" /\ fn.is_phase2
    /\ fn.prev_progress = RInt(CONFIG_ZOOM_TRANSITION_THRESHOLD_PERCENT)
    /\ fn.progress = RInt(100)
    /\ fn.target = Rat(1650, 19)
    /\ fn.pattern.viewport_original_start_pct = Rat(1574, 19)

SpanValid(s, e, total) == (s = -1 /\ e = -1) \/ (0 <= s /\ s <= e /\ e <= total - 1)

\* C10: every marker span, in either phase, is absent at both ends (-1/-1)
\* or satisfies 0 <= start_col <= end_col <= total_columns - 1.
C10_MarkerSpans ==
    PatternComputed =>
        LET w == fn.pattern
        IN  /\ SpanValid(w.left_display_col_start, w.left_display_col_end, fn.cols)
            /\ SpanValid(w.center_display_col_start, w.center_display_col_end, fn.cols)
            /\ SpanValid(w.right_display_col_start, w.right_display_col_end, fn.cols)

C10_Witness ==
    /\ fn.op = "pattern" /\ fn.is_phase2
    /\ fn.cols = 2 * MATRIX_COLUMNS_PER_UNIT /\ fn.target = Rat(1650, 19)
    /\ fn.pattern.right_display_col_start = 2 * MATRIX_COLUMNS_PER_UNIT - 1
    /\ fn.pattern.right_display_col_end = 2 * MATRIX_COLUMNS_PER_UNIT - 1
    /\ fn.pattern.left_display_col_start >= 0

Overlaps(a, b) == a[1] # -1 /\ b[1] # -1 /\ a[1] <= b[2] /\ a[2] >= b[1]

\* The clipped span of a zoomed marker before any suppression: the span
\* computed with no center marker to test against.
ClippedSpan(pct, is_left, is_right) ==
    LET vp == phase2_viewport(fn.progress, fn.target, fn.cols, fn.cfg.phase2_cols_per_one_percent)
    IN  get_phase2_static_marker_details(
            pct, fn.target, fn.cols, vp.effective_cols_per_original_percent,
            vp.viewport_original_start_pct, vp.phase2_view_coverage_pct,
            is_left, is_right, NoCenterDetails)

\* C11: in zoomed phase a left or right marker whose clipped span shares a
\* column with the center marker's span is not rendered, and otherwise it is
\* rendered with its clipped span (the other outer marker never suppresses
\* it); the center span is the one computed alone; no rendered left or right
\* span intersects the center span.  In coarse phase nothing is suppressed:
\* left and right are rendered whenever their column is on the display.
C11_OverlapSuppression ==
    PatternComputed =>
        LET w == fn.pattern
            c == <<w.center_display_col_start, w.center_display_col_end>>
            l == <<w.left_display_col_start, w.left_display_col_end>>
            r == <<w.right_display_col_start, w.right_display_col_end>>
            pad == fn.cfg.phase1_padding_cols
        IN  IF fn.is_phase2
            THEN LET lraw == ClippedSpan(w.left_original_pct, TRUE, FALSE)
                     rraw == ClippedSpan(w.right_original_pct, FALSE, TRUE)
                 IN  /\ c = ClippedSpan(fn.target, FALSE, FALSE)
                     /\ l = IF Overlaps(lraw, c) THEN <<-1, -1>> ELSE lraw
                     /\ r = IF Overlaps(rraw, c) THEN <<-1, -1>> ELSE rraw
                     /\ ~Overlaps(l, c) /\ ~Overlaps(r, c)
            ELSE /\ c[1] = c[2] /\ c[1] \in 0..(fn.cols - 1)
                 /\ l = IF c[1] - pad - 1 >= 0
                        THEN <<c[1] - pad - 1, c[1] - pad - 1>> ELSE <<-1, -1>>
                 /\ r = IF c[1] + pad + 1 < fn.cols
                        THEN <<c[1] + pad + 1, c[1] + pad + 1>> ELSE <<-1, -1>>

\* A zoomed frame whose left marker would cover the center marker's columns:
\* the left marker is gone and the center marker is rendered.
C11_Witness ==
    /\ PatternComputed /\ fn.is_phase2
    /\ Overlaps(ClippedSpan(fn.pattern.left_original_pct, TRUE, FALSE),
                <<fn.pattern.center_display_col_start, fn.pattern.center_display_col_end>>)
    /\ fn.pattern.left_display_col_start = -1
    /\ fn.pattern.center_display_col_start # -1
    /\ fn.pattern.right_display_col_start # -1

\* The coarse center column as the claim gives it:
\* min(total_columns - 1, max(0, floor(target_pct / 100 * total_columns))).
CoarseCenterColumn ==
    LET q == RDiv(RMul(fn.target, RInt(fn.cols)), RInt(100))
        floor == q[1] \div q[2]
    IN  IF floor < 0 THEN 0 ELSE IF floor > fn.cols - 1 THEN fn.cols - 1 ELSE floor

\* C27: in coarse phase the center marker is the single column
\* min(total_columns - 1, max(0, floor(target_pct / 100 * total_columns))),
\* the left marker is the single column center - padding - 1, rendered iff
\* that column is >= 0, and the right marker is the single column
\* center + padding + 1, rendered iff that column is < total_columns; a
\* marker that falls off an edge is absent, never moved onto an edge column.
C27_CoarseMarkers ==
    (PatternComputed /\ ~fn.is_phase2) =>
        LET w == fn.pattern
            left_col == CoarseCenterColumn - fn.cfg.phase1_padding_cols - 1
            right_col == CoarseCenterColumn + fn.cfg.phase1_padding_cols + 1
        IN  /\ w.center_display_col_start = CoarseCenterColumn
            /\ w.center_display_col_end = CoarseCenterColumn
            /\ IF left_col >= 0
               THEN w.left_display_col_start = left_col /\ w.left_display_col_end = left_col
               ELSE w.left_display_col_start = -1 /\ w.left_display_col_end = -1
            /\ IF right_col < fn.cols
               THEN w.right_display_col_start = right_col
                    /\ w.right_display_col_end = right_col
               ELSE w.right_display_col_start = -1 /\ w.right_display_col_end = -1

\* A coarse pattern whose left marker falls off the left edge while the right
\* marker is on the display.
C27_Witness ==
    /\ PatternComputed /\ ~fn.is_phase2
    /\ CoarseCenterColumn - fn.cfg.phase1_padding_cols - 1 < 0
    /\ fn.pattern.left_display_col_start = -1
    /\ fn.pattern.center_display_col_start = CoarseCenterColumn
    /\ fn.pattern.right_display_col_start > CoarseCenterColumn

\* C28: in zoomed phase the center marker's original percent is the target
\* percent, the left marker's is strictly below it and the right marker's
\* strictly above it, for every target.
C28_MarkersAroundTarget ==
    (PatternComputed /\ fn.is_phase2) =>
        /\ fn.pattern.center_original_pct = fn.target
        /\ RLt(fn.pattern.left_original_pct, fn.target)
        /\ RLt(fn.target, fn.pattern.right_original_pct)

\* C29: in zoomed phase with at least one column the center marker's span is
\* rendered, for every target percent in [0, 100] and every zoom density.
C29_CenterAlwaysRendered ==
    (PatternComputed /\ fn.is_phase2 /\ fn.cols >= 1
        /\ RLe(RInt(0), fn.target) /\ RLe(fn.target, RInt(100))) =>
        /\ fn.pattern.center_display_col_start # -1
        /\ fn.pattern.center_display_col_end # -1

\* A zoomed pattern whose marker is wider than the display: the center span
\* is the one column there is.
C29_Witness ==
    /\ PatternComputed /\ fn.is_phase2 /\ fn.cols = 1
    /\ fn.cfg.phase2_cols_per_one_percent = RInt(3)
    /\ fn.pattern.center_display_col_start = 0 /\ fn.pattern.center_display_col_end = 0

----------------------------------------------------------------------------
(* The matrices as the renderers and the digit drawing write them: the     *)
(* buffer holds, for every column, the colours of its 8 rows.  Renders of  *)
(* code.py (variant "main") and of the class (variant "PGD") are applied   *)
(* to bounded inputs, with countdown and score digits drawn in between.    *)

MATRIX_ROWS == 8

\* ParkingGuideDisplay._FONT, a glyph as its five rows of five pixels.
FONT ==
    [ d \in 0..9 |->
        CASE d = 0 -> << <<0,1,1,1,0>>, <<1,0,0,0,1>>, <<1,0,0,0,1>>, <<1,0,0,0,1>>, <<0,1,1,1,0>> >>
          [] d = 1 -> << <<0,0,1,0,0>>, <<0,1,1,0,0>>, <<0,0,1,0,0>>, <<0,0,1,0,0>>, <<0,1,1,1,0>> >>
          [] d = 2 -> << <<0,1,1,1,0>>, <<1,0,0,0,1>>, <<0,0,0,1,0>>, <<0,0,1,0,0>>, <<1,1,1,1,1>> >>
          [] d = 3 -> << <<1,1,1,1,0>>, <<0,0,0,0,1>>, <<0,1,1,1,0>>, <<0,0,0,0,1>>, <<1,1,1,1,0>> >>
          [] d = 4 -> << <<1,0,0,1,0>>, <<1,0,0,1,0>>, <<1,1,1,1,1>>, <<0,0,0,1,0>>, <<0,0,0,1,0>> >>
          [] d = 5 -> << <<1,1,1,1,1>>, <<1,0,0,0,0>>, <<1,1,1,1,0>>, <<0,0,0,0,1>>, <<0,1,1,1,0>> >>
          [] d = 6 -> << <<0,1,1,1,0>>, <<1,0,0,0,0>>, <<1,1,1,1,0>>, <<1,0,0,0,1>>, <<0,1,1,1,0>> >>
          [] d = 7 -> << <<1,1,1,1,1>>, <<0,0,0,1,0>>, <<0,0,1,0,0>>, <<0,1,0,0,0>>, <<0,1,0,0,0>> >>
          [] d = 8 -> << <<0,1,1,1,0>>, <<1,0,0,0,1>>, <<0,1,1,1,0>>, <<1,0,0,0,1>>, <<0,1,1,1,0>> >>
          [] OTHER -> << <<0,1,1,1,0>>, <<1,0,0,0,1>>, <<0,1,1,1,1>>, <<0,0,0,0,1>>, <<0,1,1,1,0>> >> ]

\* A matrix buffer of total columns, every pixel off.
BlankBuffer(total) == [c \in 1..total |-> [r \in 1..MATRIX_ROWS |-> "off"]]

\* A plausible slip: only the lit columns of the frame are written.
write_frame_mut(buffer, colors, total_display_cols) ==
    [c \in 1..Len(buffer) |->
        IF c <= total_display_cols /\ colors[c] # "off"
        THEN [r \in 1..MATRIX_ROWS |-> colors[c]] ELSE buffer[c]]

\* The loop over set_single_column_color_by_global_index: all 8 rows of
\* every column of the frame are set.
write_frame(buffer, colors, total_display_cols) ==
    [c \in 1..Len(buffer) |->
        IF c <= total_display_cols
        THEN [r \in 1..MATRIX_ROWS |-> colors[c]] ELSE buffer[c]]

\* A plausible slip: a number that is falsy (0) is taken for "no number".
draw_digit_mut(buffer, number, color_name) ==
    IF Len(buffer) = 0 THEN buffer
    ELSE [c \in 1..Len(buffer) |-> [r \in 1..MATRIX_ROWS |->
             IF /\ number \in 1..9
                /\ \E y \in 0..4, x \in 0..4 :
                      /\ FONT[number][y + 1][x + 1] = 1
                      /\ c = (7 - y) + 1 /\ r = (7 - (x + 1)) + 1
             THEN color_name ELSE "off"]]

\* _draw_digit: every matrix is cleared, then the glyph of a number that has
\* one (str(number) in _FONT) is set on the first matrix, pixel (x, y) of the
\* glyph at column 7 - y, row 7 - (x + 1).
draw_digit(buffer, number, color_name) ==
    IF Len(buffer) = 0 THEN buffer
    ELSE [c \in 1..Len(buffer) |-> [r \in 1..MATRIX_ROWS |->
             IF /\ number \in 0..9
                /\ \E y \in 0..4, x \in 0..4 :
                      /\ FONT[number][y + 1][x + 1] = 1
                      /\ c = (7 - y) + 1 /\ r = (7 - (x + 1)) + 1
             THEN color_name ELSE "off"]]

RenderTargetInputs ==
    {RInt(50), calculate_derived_target_percentage(RInt(CONFIG_PARKED_DISTANCE_CM),
                                                   RInt(UPPER_RANGE_CM))}

RenderColumnInputs ==
    {m * MATRIX_COLUMNS_PER_UNIT : m \in {1, MaxMatrices, MAX_MATRICES}}

RenderDensityInputs == {Rat(1, 2), RInt(CONFIG_PHASE2_COLS_PER_ONE_PERCENT)}

RenderProgressInputs ==
    {RInt(0), RInt(50), RInt(CONFIG_ZOOM_TRANSITION_THRESHOLD_PERCENT), Rat(1500, 19),
     RInt(100)}

\* Numbers handed to show_countdown and show_score; 10 has no glyph.
DigitInputs == {0, 7, 10}

NoFrame == <<>>

InitRender ==
    /\ pc = PcIdle /\ hw = HwIdle /\ tick = TickIdle /\ shutdown = ShutdownIdle
    /\ \E v \in {"main", "PGD"}, t \in RenderTargetInputs, c \in RenderColumnInputs,
          dens \in RenderDensityInputs :
          fn = [ op |-> "blank", prev_op |-> "none", variant |-> v, target |-> t, cols |-> c,
                 cfg |-> DisplayConfigs(CONFIG_PHASE1_PADDING_COLS, dens),
                 progress |-> None, is_phase2 |-> FALSE,
                 pattern |-> pattern_defaults(t, DisplayConfigs(CONFIG_PHASE1_PADDING_COLS, dens)),
                 frame |-> NoFrame, filled |-> {},
                 buffer |-> BlankBuffer(c),
                 seen |-> [p \in RenderProgressInputs |-> NoFrame] ]

\* The pattern and the frame of one render, as main (variant "main") and
\* ParkingGuideDisplay.update (variant "PGD") compute them.
RenderOf(v, p, target, cols, cfg) ==
    { [ pattern |-> pd,
        frame |-> IF v = "main"
                  THEN display_column_colors(p, target, cols, pd, RenderConfigs)
                  ELSE PGD_display_column_colors(p, target, cols, pd, RenderConfigs),
        filled |-> {i \in 0..(cols - 1) : is_filled_by_slider(i, p, is_phase2_active(p), pd)} ] :
      pd \in { IF v = "main"
               THEN get_pattern_display_details(p, is_phase2_active(p), target, cols, cfg)
               ELSE PGD_get_pattern_display_details(p, is_phase2_active(p), target, cols, cfg) } }

\* render_display / _render_matrix_display on the current buffer.
Render ==
    /\ fn.op \in {"blank", "render", "digit"}
    /\ \E p \in RenderProgressInputs :
       \E rd \in RenderOf(fn.variant, p, fn.target, fn.cols, fn.cfg) :
       \E b \in {write_frame(fn.buffer, rd.frame, fn.cols)} :
          fn' = [fn EXCEPT
                    !.op = "render", !.prev_op = fn.op, !.progress = p, !.is_phase2 = is_phase2_active(p),
                    !.pattern = rd.pattern, !.frame = rd.frame, !.filled = rd.filled,
                    !.buffer = b,
                    !.seen = [fn.seen EXCEPT ![p] = IF @ = NoFrame THEN b ELSE @]]
    /\ UNCHANGED <<pc, hw, tick, shutdown>>

\* show_countdown (red) and show_score (green) of the class.
ShowDigit ==
    /\ fn.op \in {"blank", "render", "digit"}
    /\ fn.variant = "PGD"
    /\ \E number \in DigitInputs, color_name \in {"red", "green"} :
          fn' = [fn EXCEPT
                    !.op = "digit", !.prev_op = fn.op, !.progress = None, !.is_phase2 = FALSE,
                    !.pattern = pattern_defaults(fn.target, fn.cfg),
                    !.frame = NoFrame, !.filled = {},
                    !.buffer = draw_digit(fn.buffer, number, color_name)]
    /\ UNCHANGED <<pc, hw, tick, shutdown>>

NextRender == Render \/ ShowDigit

SpecRender == InitRender /\ [][NextRender]_vars

\* The buffer that shows a frame: every row of a column in the frame's colour.
Shows(buffer, frame) ==
    /\ Len(buffer) = Len(frame)
    /\ \A c \in 1..Len(frame) : \A r \in 1..MATRIX_ROWS : buffer[c][r] = frame[c]

\* C12: a render of a progress leaves in the matrices exactly the frame it
\* composed, and that is the content the first render of the same progress
\* (same target and configuration) left, whatever was rendered or drawn in
\* between.
C12_RenderIdempotent ==
    fn.op = "render" =>
        /\ Shows(fn.buffer, fn.frame)
        /\ fn.buffer = fn.seen[fn.progress]

\* A progress rendered again after a digit was drawn.
C12_Witness ==
    /\ fn.op = "render" /\ fn.prev_op = "digit" /\ fn.progress = RInt(50)
    /\ fn.buffer = fn.seen[fn.progress]
    /\ \E p \in RenderProgressInputs :
          fn.seen[p] # NoFrame /\ fn.seen[p] # fn.buffer

\* C20: the slider fill of a rendered frame.  In coarse phase column i is
\* filled iff i * (100 / total_columns) < progress; in zoomed phase iff
\* progress > viewport_start_pct and
\* i < floor((progress - viewport_start_pct) / pct_per_col).  The filled
\* columns are a prefix 0..k-1; progress 0 fills nothing; 32 columns at
\* progress 50 fill columns 0..15, with the center marker of a 50% target at
\* column 16.
C20_SliderFill ==
    fn.op = "render" =>
        LET vstart == fn.pattern.viewport_original_start_pct
            per_col == fn.pattern.original_pct_per_display_col
        IN  /\ ~fn.is_phase2 =>
                  fn.filled = {i \in 0..(fn.cols - 1) :
                                  RLt(RMul(RInt(i), RDiv(RInt(100), RInt(fn.cols))), fn.progress)}
            /\ fn.is_phase2 =>
                  fn.filled = {i \in 0..(fn.cols - 1) :
                                  /\ RLt(vstart, fn.progress)
                                  /\ i < Trunc(RDiv(RSub(fn.progress, vstart), per_col))}
            /\ fn.filled = 0..(Cardinality(fn.filled) - 1)
            /\ fn.progress = RInt(0) => fn.filled = {}
            /\ (fn.cols = 32 /\ fn.progress = RInt(50) /\ fn.target = RInt(50)) =>
                  /\ fn.filled = 0..15
                  /\ fn.pattern.center_display_col_start = 16
                  /\ fn.pattern.center_display_col_end = 16
                  /\ fn.frame[17] = fn.pattern.center_color
                  /\ fn.frame[16] # "off"

\* A zoomed frame of render_display whose slider fills some columns, not all.
C20_Witness ==
    /\ fn.op = "render" /\ fn.variant = "main" /\ fn.is_phase2
    /\ fn.filled # {} /\ Cardinality(fn.filled) < fn.cols
    /\ fn.frame[1] # "off"

----------------------------------------------------------------------------
(* One frame, layer by layer: the colours after the slider loop, after the *)
(* markers and after the precise indicator, as render_display ("main") and *)
(* _render_matrix_display ("PGD") compose them from the same pattern.      *)

FrameTargetInputs ==
    {RInt(50), Rat(125, 2),
     calculate_derived_target_percentage(RInt(CONFIG_PARKED_DISTANCE_CM), RInt(UPPER_RANGE_CM)),
     RInt(100)}

FrameColumnInputs == {m * MATRIX_COLUMNS_PER_UNIT : m \in {1, MaxMatrices, MAX_MATRICES}}

FrameDensityInputs == {Rat(1, 2), RInt(CONFIG_PHASE2_COLS_PER_ONE_PERCENT)}

\* Progress: nothing, coarse before and past the center marker, the zoom
\* threshold, zoomed below and inside the viewports, at the targets, and full.
FrameProgressInputs ==
    {RInt(0), RInt(50), RInt(65), RInt(CONFIG_ZOOM_TRANSITION_THRESHOLD_PERCENT),
     Rat(1500, 19), RInt(80), Rat(165, 2), RInt(86), Rat(1650, 19), RInt(100)}

\* The change point of the slider colour, in percent of the target: the one
\* of code.py and one above the zoom threshold.
ChangePointInputs == {RInt(CONFIG_SLIDER_COLOR_CHANGE_POINT_TARGET_PCT), RInt(80)}

CenterColorInputs == {CONFIG_CENTER_STATIC_COLOR, "red"}

NoLayers == [slider |-> <<>>, marked |-> <<>>, frame |-> <<>>, indicator |-> -1, tip |-> "none"]

\* The layers of one frame of renderer r.
FrameLayers(r, p, target, cols, pd, rcfg) ==
    LET is_phase2 == RLe(rcfg.zoom_transition_threshold_percent, p)
        thresh == calculate_phase1_slider_color_change_threshold_original_pct(
                      pd.center_original_pct, rcfg.slider_color_change_point_target_pct,
                      target)
        slider == [i \in 1..cols |->
                     IF r = "main"
                     THEN slider_column_color(i - 1, p, is_phase2, thresh, pd, rcfg)
                     ELSE PGD_slider_column_color(i - 1, p, is_phase2, thresh, pd, rcfg)]
    IN  [ slider |-> slider,
          marked |-> [i \in 1..cols |->
                        IF r = "main"
                        THEN marker_column_color(i - 1, slider[i], is_phase2, cols, pd, rcfg)
                        ELSE PGD_marker_column_color(i - 1, slider[i], is_phase2, cols, pd, rcfg)],
          frame |-> IF r = "main" THEN display_column_colors(p, target, cols, pd, rcfg)
                    ELSE PGD_display_column_colors(p, target, cols, pd, rcfg),
          indicator |-> IF r = "main"
                        THEN precise_indicator_display_col_idx(p, is_phase2, cols, pd, rcfg)
                        ELSE PGD_indicator_idx(p, is_phase2, cols, pd, rcfg),
          tip |-> get_current_progress_color(p, is_phase2, thresh, pd, rcfg) ]

InitFrame ==
    /\ pc = PcIdle /\ hw = HwIdle /\ tick = TickIdle /\ shutdown = ShutdownIdle
    /\ \E v \in {"main", "PGD"}, t \in FrameTargetInputs, c \in FrameColumnInputs,
          dens \in FrameDensityInputs, cp \in ChangePointInputs,
          cc \in CenterColorInputs :
          fn = [ op |-> "idle", variant |-> v, target |-> t, cols |-> c,
                 cfg |-> [DisplayConfigs(CONFIG_PHASE1_PADDING_COLS, dens) EXCEPT
                             !.center_static_color = cc],
                 rcfg |-> [RenderConfigs EXCEPT !.slider_color_change_point_target_pct = cp],
                 progress |-> None, is_phase2 |-> FALSE, thresh |-> None,
                 pattern |-> pattern_defaults(t, DisplayConfigs(CONFIG_PHASE1_PADDING_COLS, dens)),
                 main |-> NoLayers, pgd |-> NoLayers ]

\* One frame of a tick: the pattern as variant fn.variant computes it, and the
\* frame of both renderers for it.
Compose ==
    /\ \E p \in FrameProgressInputs :
       \E pd \in { IF fn.variant = "main"
                   THEN get_pattern_display_details(p, is_phase2_active(p), fn.target,
                                                    fn.cols, fn.cfg)
                   ELSE PGD_get_pattern_display_details(p, is_phase2_active(p), fn.target,
                                                        fn.cols, fn.cfg) } :
       \E m \in {FrameLayers("main", p, fn.target, fn.cols, pd, fn.rcfg)} :
       \E g \in {FrameLayers("PGD", p, fn.target, fn.cols, pd, fn.rcfg)} :
          fn' = [fn EXCEPT
                    !.op = "frame", !.progress = p, !.is_phase2 = is_phase2_active(p),
                    !.thresh = calculate_phase1_slider_color_change_threshold_original_pct(
                                   pd.center_original_pct,
                                   fn.rcfg.slider_color_change_point_target_pct, fn.target),
                    !.pattern = pd, !.main = m, !.pgd = g]
    /\ UNCHANGED <<pc, hw, tick, shutdown>>

NextFrame == Compose

SpecFrame == InitFrame /\ [][NextFrame]_vars

\* The original percent at which column i (from 0) of the frame starts.
ColumnStartPct(i) ==
    RAdd(fn.pattern.viewport_original_start_pct,
         RMul(RInt(i), fn.pattern.original_pct_per_display_col))

\* Column i (from 0) is filled by the slider in the frame.
Filled(i) == is_filled_by_slider(i, fn.progress, fn.is_phase2, fn.pattern)

\* C21: in coarse phase every filled column holds the coarse rule's colour at
\* its own start-percent, start_color when the start-percent is at most the
\* threshold (also when it equals it) and end_color above it; in zoomed phase
\* every filled column holds the one colour of the current progress.
C21_FilledColumnColour ==
    fn.op = "frame" =>
        \A L \in {fn.main, fn.pgd} : \A i \in 0..(fn.cols - 1) :
            L.slider[i + 1] # "off" =>
                L.slider[i + 1] =
                    IF fn.is_phase2 THEN L.tip
                    ELSE IF RLe(ColumnStartPct(i), fn.thresh)
                         THEN fn.rcfg.slider_start_color
                         ELSE fn.rcfg.slider_end_color_phase1

\* The post-marker override of the zoomed colour applies to the frame.
OverrideApplies ==
    /\ fn.pattern.left_original_pct # RInt(-1)
    /\ RLt(fn.pattern.left_original_pct, fn.progress)

\* The colour the coarse rule gives for the frame's progress and threshold.
CoarseRuleColour ==
    IF RLt(fn.thresh, fn.progress) THEN fn.rcfg.slider_end_color_phase1
    ELSE fn.rcfg.slider_start_color

\* C23: in zoomed phase, whenever the post-marker override does not apply,
\* the slider colour is the colour the coarse rule gives for the same progress
\* and threshold, also when the progress equals the threshold.
C23_ColourContinuity ==
    (fn.op = "frame" /\ fn.is_phase2 /\ ~OverrideApplies) =>
        fn.main.tip = CoarseRuleColour /\ fn.pgd.tip = CoarseRuleColour

\* The left marker is rendered in the frame: its span is not (None, None).
LeftRendered ==
    fn.pattern.left_display_col_start # -1 /\ fn.pattern.left_display_col_end # -1

\* The slider colour of layers L is the post-marker colour.
Overridden(L) == L.tip = fn.rcfg.slider_color_after_1st_static_zoomed

\* C24: in zoomed phase the slider colour is the post-marker colour exactly
\* when the left marker is rendered and the progress is above the left
\* marker's original percent; with no left marker in the frame the colour is
\* not overridden; in coarse phase it never is.
C24_OverrideIffLeftRendered ==
    fn.op = "frame" =>
        \A L \in {fn.main, fn.pgd} :
            IF fn.is_phase2
            THEN Overridden(L) <=>
                     (LeftRendered /\ RLt(fn.pattern.left_original_pct, fn.progress))
            ELSE ~Overridden(L)

\* Column i (from 0) lies in the rendered span from start_col to end_col.
InSpan(i, start_col, end_col) ==
    start_col # -1 /\ end_col # -1 /\ start_col <= i /\ i <= end_col

InLeftSpan(i) ==
    InSpan(i, fn.pattern.left_display_col_start, fn.pattern.left_display_col_end)

InRightSpan(i) ==
    InSpan(i, fn.pattern.right_display_col_start, fn.pattern.right_display_col_end)

InCenterSpan(i) ==
    InSpan(i, fn.pattern.center_display_col_start, fn.pattern.center_display_col_end)

\* C25: in the frame before the precise indicator, every column of a rendered
\* left or right span holds that marker's colour whatever the slider put
\* there; in coarse phase every column of the center span holds the center
\* colour; in zoomed phase with the show-through flag a center-span column
\* that holds a slider colour keeps it, and one that is still off receives
\* the center colour.
C25_MarkerPrecedence ==
    fn.op = "frame" =>
        \A L \in {fn.main, fn.pgd} : \A i \in 0..(fn.cols - 1) :
            /\ InLeftSpan(i) => L.marked[i + 1] = fn.pattern.left_color
            /\ InRightSpan(i) => L.marked[i + 1] = fn.pattern.right_color
            /\ (~fn.is_phase2 /\ InCenterSpan(i)) => L.marked[i + 1] = fn.pattern.center_color
            /\ (fn.is_phase2 /\ fn.rcfg.phase2_allow_slider_overwrite_target /\ InCenterSpan(i)) =>
                   IF L.slider[i + 1] # "off" THEN L.marked[i + 1] = L.slider[i + 1]
                   ELSE L.marked[i + 1] = fn.pattern.center_color

\* A zoomed frame whose slider has reached a left marker and the center span,
\* with a center colour of its own: the left marker column shows the marker,
\* the center column shows the slider.
C25_Witness ==
    /\ fn.op = "frame" /\ fn.is_phase2 /\ fn.pattern.center_color = "red"
    /\ \E i \in 0..(fn.cols - 1) :
          /\ InLeftSpan(i) /\ fn.main.slider[i + 1] # "off"
          /\ fn.main.slider[i + 1] # fn.pattern.left_color
          /\ fn.main.marked[i + 1] = fn.pattern.left_color
    /\ \E i \in 0..(fn.cols - 1) :
          /\ InCenterSpan(i) /\ fn.main.slider[i + 1] # "off"
          /\ fn.main.marked[i + 1] = fn.main.slider[i + 1]

\* A coarse frame whose slider has passed the center marker: the center
\* column shows the center colour.
C25_WitnessCoarse ==
    /\ fn.op = "frame" /\ ~fn.is_phase2 /\ fn.pattern.center_color = "red"
    /\ \E i \in 0..(fn.cols - 1) :
          InCenterSpan(i) /\ fn.main.slider[i + 1] # "off" /\ fn.main.marked[i + 1] = "red"

\* The progress lies within the viewport bounds of the frame, tolerance
\* included.
ProgressInViewport ==
    /\ RLe(RSub(fn.pattern.viewport_original_start_pct, FLOAT_COMPARISON_TOLERANCE),
           fn.progress)
    /\ RLe(fn.progress,
           RAdd(RAdd(fn.pattern.viewport_original_start_pct,
                     fn.pattern.phase2_view_coverage_pct),
                FLOAT_COMPARISON_TOLERANCE))

\* floor((progress - viewport_start_pct) / pct_per_col), clamped to the
\* columns of the frame.
ClampedProgressColumn ==
    LET q == RDiv(RSub(fn.progress, fn.pattern.viewport_original_start_pct),
                  fn.pattern.original_pct_per_display_col)
        floor == q[1] \div q[2]
    IN  IF floor < 0 THEN 0 ELSE IF floor > fn.cols - 1 THEN fn.cols - 1 ELSE floor

\* C26: when zoomed with the flag set and the progress within the viewport
\* bounds, the clamped column of the progress, and no other, is forced to the
\* indicator colour over whatever the slider and the markers put there; when
\* the progress is outside the viewport, and in coarse phase, the indicator
\* step writes no column.  For both renderers.
C26_PreciseIndicator ==
    fn.op = "frame" =>
        \A L \in {fn.main, fn.pgd} :
            IF fn.is_phase2 /\ fn.rcfg.phase2_show_precise_indicator /\ ProgressInViewport
            THEN /\ L.indicator = ClampedProgressColumn
                 /\ L.frame = [L.marked EXCEPT ![ClampedProgressColumn + 1] =
                                                   fn.rcfg.precise_indicator_color]
            ELSE L.indicator = -1 /\ L.frame = L.marked

\* C30: for the same configuration, columns, progress, target and pattern the
\* frame of _render_matrix_display and the frame of render_display hold the
\* same colour in every column, and the indicator (NeoPixel) colour chosen by
\* the class and by the main loop is the same.
C30_RenderersEquivalent ==
    fn.op = "frame" =>
        /\ \A i \in 1..fn.cols : fn.pgd.frame[i] = fn.main.frame[i]
        /\ fn.pgd.tip = fn.main.tip

----------------------------------------------------------------------------
(* The slider colour policy in coarse phase as a function of its           *)
(* arguments: the threshold for a center marker with and without a valid   *)
(* original percent, then the colour of a progress below the zoom          *)
(* threshold.                                                              *)

\* The center marker's original percent: none (-1.0) or the target's.
CenterPctInputs(target) == {RInt(-1), target}

\* Coarse progress: none, the thresholds of the inputs and values around them.
CoarseProgressInputs ==
    {RInt(0), RInt(25), Rat(125, 4), Rat(65, 2), RInt(40), Rat(325, 8), RInt(50),
     RInt(65), RInt(74)}

InitColor ==
    /\ pc = PcIdle /\ hw = HwIdle /\ tick = TickIdle /\ shutdown = ShutdownIdle
    /\ \E t \in FrameTargetInputs, cp \in ChangePointInputs :
       \E c \in CenterPctInputs(t) :
          fn = [ op |-> "idle", target |-> t, center |-> c,
                 rcfg |-> [RenderConfigs EXCEPT !.slider_color_change_point_target_pct = cp],
                 thresh |-> None, progress |-> None, color |-> "none" ]

Threshold ==
    /\ fn.op = "idle"
    /\ fn' = [fn EXCEPT
                 !.op = "threshold",
                 !.thresh = calculate_phase1_slider_color_change_threshold_original_pct(
                                fn.center, fn.rcfg.slider_color_change_point_target_pct,
                                fn.target)]
    /\ UNCHANGED <<pc, hw, tick, shutdown>>

\* The colour of a progress in coarse phase; the coarse rule reads nothing of
\* the pattern.
ProgressColor ==
    /\ fn.op \in {"threshold", "color"}
    /\ \E p \in CoarseProgressInputs :
          /\ ~is_phase2_active(p)
          /\ fn' = [fn EXCEPT
                       !.op = "color", !.progress = p,
                       !.color = get_current_progress_color(p, FALSE, fn.thresh,
                                     pattern_defaults(fn.target,
                                         DisplayConfigs(CONFIG_PHASE1_PADDING_COLS,
                                                        RInt(CONFIG_PHASE2_COLS_PER_ONE_PERCENT))),
                                     fn.rcfg)]
    /\ UNCHANGED <<pc, hw, tick, shutdown>>

NextColor == Threshold \/ ProgressColor

SpecColor == InitColor /\ [][NextColor]_vars

\* C22: in coarse phase the threshold is (changeover_percent/100) times the
\* center marker's original percent when that is valid and half the target
\* percent otherwise, and the colour is start_color for every progress at or
\* below the threshold and end_color for every progress above it.
C22_CoarseColourPolicy ==
    /\ fn.op # "idle" =>
          fn.thresh =
              IF fn.center # RInt(-1)
              THEN RDiv(RMul(fn.rcfg.slider_color_change_point_target_pct, fn.center),
                        RInt(100))
              ELSE RDiv(fn.target, RInt(2))
    /\ fn.op = "color" =>
          /\ RLe(fn.progress, fn.thresh) => fn.color = fn.rcfg.slider_start_color
          /\ RLt(fn.thresh, fn.progress) => fn.color = fn.rcfg.slider_end_color_phase1

\* The progress is exactly at a threshold, once from a valid center marker and
\* once from the fallback.
C22_Witness ==
    /\ fn.op = "color" /\ fn.progress = fn.thresh
    /\ fn.center # RInt(-1) /\ fn.color = fn.rcfg.slider_start_color

C22_WitnessFallback ==
    /\ fn.op = "color" /\ fn.center = RInt(-1)
    /\ RLt(fn.thresh, fn.progress) /\ fn.color = fn.rcfg.slider_end_color_phase1

----------------------------------------------------------------------------
(* Settings of new_parking_sensor.py: save_parked_distance, followed step  *)
(* by step, and load_parked_distance, over a filesystem that holds the     *)
(* settings file and the temp file and is mounted read-only or writable.   *)

\* Digits str() prints after the decimal point, at most.
MaxFracDigits == 4

RECURSIVE FracDigits(_, _)
\* The decimal digits of a fraction 0 <= f < 1, at most n of them.
FracDigits(f, n) ==
    IF n = 0 \/ f[1] = 0 THEN <<>>
    ELSE LET t == RMul(f, RInt(10))
         IN  <<Trunc(t)>> \o FracDigits(RSub(t, RInt(Trunc(t))), n - 1)

\* str(distance_to_save) for a non-negative number: the integer part and the
\* digits after the point.
str(x) == [int |-> Trunc(x), frac |-> FracDigits(RSub(x, RInt(Trunc(x))), MaxFracDigits)]

RECURSIVE FracValue(_)
\* The value of digits after the point.
FracValue(ds) ==
    IF ds = <<>> THEN RInt(0)
    ELSE RDiv(RAdd(RInt(ds[1]), FracValue(Tail(ds))), RInt(10))

\* float(data) for a text that str() printed.
float(data) == RAdd(RInt(data.int), FracValue(data.frac))

\* File contents: no file, a complete text, the beginning of a text (up to
\* the decimal point), or text that is no number.
Absent == [kind |-> "absent", text |-> str(RInt(0))]
Complete(x) == [kind |-> "complete", text |-> str(x)]
Partial(x) == [kind |-> "partial", text |-> [int |-> Trunc(x), frac |-> <<>>]]
Garbage == [kind |-> "garbage", text |-> str(RInt(0))]

\* Distances handed to save_parked_distance.
SaveInputs == {None, RInt(CONFIG_PARKED_DISTANCE_CM), Rat(61, 2), Rat(1, 8)}

CaughtKinds == {"OSError", "ValueError"}

\* What goes wrong during one call of save_parked_distance, if anything:
\* the filesystem cannot be remounted (both remounts of the call raise), the
\* write of the temp file raises, or the rename raises.
SaveFaults ==
    {[at |-> "none", kind |-> "none"]}
    \cup {[at |-> a, kind |-> k] : a \in {"remount", "write", "rename"},
                                   k \in CaughtKinds \cup {"Other"}}

NoReturn == [kind |-> "none", v |-> None]
Returned(v) == [kind |-> "return", v |-> v]
Raised(k) == [kind |-> "raise", v |-> None, exc |-> k]

\* The methods of the classes of new_parking_sensor.py.
Methods(class) ==
    IF class = "Sensors"
    THEN {"set_distance_mode", "set_timing_budget", "start_ranging", "stop_ranging",
          "get_distance", "get_light_reading"}
    ELSE IF class = "Settings"
    THEN {"save_parked_distance", "load_parked_distance"}
    ELSE {}

\* No Precision_Approach object yet.
NoApp == [built |-> FALSE, settings |-> "none", parked_distance |-> None,
          raised |-> "none", loads |-> 0]

InitSettings ==
    /\ pc = PcIdle /\ hw = HwIdle /\ tick = TickIdle /\ shutdown = ShutdownIdle
    /\ \E f \in {Absent, Garbage, Complete(RInt(CONFIG_PARKED_DISTANCE_CM))} :
          fn = [ op |-> "idle", at |-> "none", x |-> None,
                 fault |-> [at |-> "none", kind |-> "none"],
                 readonly |-> TRUE, made_writable |-> FALSE,
                 file |-> f, temp |-> Absent, prev |-> f,
                 pending |-> "none", ret |-> NoReturn, calls |-> 0,
                 app |-> NoApp ]

\* Calls of save and load the harness makes, at most.
MaxCalls == 3

\* Where an exception of kind k raised inside the try block goes: to the
\* except clause when it is an OSError or a ValueError, else to finally.
AfterRaise(k) == IF k \in CaughtKinds THEN "except" ELSE "finally"

\* save_parked_distance is called: None returns at once, before any remount.
SaveCall ==
    /\ fn.at = "none" /\ fn.calls < MaxCalls
    /\ \E x \in SaveInputs, fault \in SaveFaults :
          fn' = IF x = None
                THEN [fn EXCEPT !.op = "save", !.x = x, !.prev = fn.file,
                                !.fault = [at |-> "none", kind |-> "none"],
                                !.made_writable = FALSE, !.pending = "none",
                                !.ret = Returned(None), !.calls = @ + 1]
                ELSE [fn EXCEPT !.op = "saving", !.at = "remount", !.x = x,
                                !.prev = fn.file, !.fault = fault,
                                !.made_writable = FALSE, !.pending = "none",
                                !.ret = NoReturn, !.calls = @ + 1]
    /\ UNCHANGED <<pc, hw, tick, shutdown>>

\* storage.remount("/", readonly=False)
SaveRemount ==
    /\ fn.at = "remount"
    /\ fn' = IF fn.fault.at = "remount"
             THEN [fn EXCEPT !.pending = fn.fault.kind, !.at = AfterRaise(fn.fault.kind)]
             ELSE [fn EXCEPT !.readonly = FALSE, !.made_writable = TRUE, !.at = "write"]
    /\ UNCHANGED <<pc, hw, tick, shutdown>>

\* with open(TEMP_SETTINGS_FILE, "w") as f: f.write(str(distance_to_save))
SaveWrite ==
    /\ fn.at = "write"
    /\ IF fn.fault.at = "write"
       THEN \E t \in {fn.temp, Partial(fn.x)} :
               fn' = [fn EXCEPT !.temp = t, !.pending = fn.fault.kind,
                                !.at = AfterRaise(fn.fault.kind)]
       ELSE fn' = [fn EXCEPT !.temp = Complete(fn.x), !.at = "rename"]
    /\ UNCHANGED <<pc, hw, tick, shutdown>>

\* os.rename(TEMP_SETTINGS_FILE, SETTINGS_FILE); return distance_to_save
SaveRename ==
    /\ fn.at = "rename"
    /\ fn' = IF fn.fault.at = "rename"
             THEN [fn EXCEPT !.pending = fn.fault.kind, !.at = AfterRaise(fn.fault.kind)]
             ELSE [fn EXCEPT !.file = fn.temp, !.temp = Absent,
                             !.ret = Returned(fn.x), !.at = "finally"]
    /\ UNCHANGED <<pc, hw, tick, shutdown>>

\* except (OSError, ValueError): os.remove of the temp file (its own OSError,
\* when there is none, is passed over); return None
SaveExcept ==
    /\ fn.at = "except"
    /\ fn' = [fn EXCEPT !.temp = Absent, !.pending = "none",
                        !.ret = Returned(None), !.at = "finally"]
    /\ UNCHANGED <<pc, hw, tick, shutdown>>

\* Without the finally clause the remount to read-only follows the rename only.
save_finally_mut(f) ==
    IF f.pending # "none" THEN [f EXCEPT !.ret = Raised(f.pending), !.pending = "none"]
    ELSE IF f.ret = Returned(f.x) THEN [f EXCEPT !.readonly = TRUE]
    ELSE f

\* finally: storage.remount("/", readonly=True); raising there replaces the
\* return value or the exception on its way out.
save_finally(f) ==
    IF f.fault.at = "remount" THEN [f EXCEPT !.ret = Raised(f.fault.kind), !.pending = "none"]
    ELSE IF f.pending # "none" THEN [f EXCEPT !.readonly = TRUE, !.ret = Raised(f.pending), !.pending = "none"]
    ELSE [f EXCEPT !.readonly = TRUE]

SaveFinally ==
    /\ fn.at = "finally"
    /\ fn' = [save_finally(fn) EXCEPT !.op = "save", !.at = "none"]
    /\ UNCHANGED <<pc, hw, tick, shutdown>>

\* load_parked_distance: open, read, strip, float; OSError (no file) and
\* ValueError (no number) give None.
load_parked_distance(file) ==
    IF file.kind = "absent" THEN Returned(None)
    ELSE IF file.kind = "garbage" THEN Returned(None)
    ELSE Returned(float(file.text))

Load ==
    /\ fn.at = "none" /\ fn.calls < MaxCalls
    /\ fn' = [fn EXCEPT !.op = "load", !.ret = load_parked_distance(fn.file),
                        !.calls = @ + 1]
    /\ UNCHANGED <<pc, hw, tick, shutdown>>

\* Precision_Approach.__init__(sensor_obj, display_obj, settings_objc): the
\* attribute settings is bound to sensor_obj, and load_parked_distance is
\* called on it; an object without that method raises AttributeError.
Precision_Approach_init(sensor_obj, display_obj, settings_objc, file) ==
    LET settings == sensor_obj
    IN  IF "load_parked_distance" \in Methods(settings)
        THEN [built |-> TRUE, settings |-> settings,
              parked_distance |-> load_parked_distance(file).v,
              raised |-> "none", loads |-> 1]
        ELSE [built |-> FALSE, settings |-> settings, parked_distance |-> None,
              raised |-> "AttributeError", loads |-> 0]

\* Startup: the objects are made and handed to Precision_Approach.
Construct ==
    /\ fn.at = "none" /\ ~fn.app.built /\ fn.app.raised = "none"
    /\ fn' = [fn EXCEPT !.op = "construct",
                        !.app = Precision_Approach_init("Sensors", "DisplayManager", "Settings", fn.file)]
    /\ UNCHANGED <<pc, hw, tick, shutdown>>

NextSettings ==
    \/ SaveCall \/ SaveRemount \/ SaveWrite \/ SaveRename
    \/ SaveExcept \/ SaveFinally \/ Load \/ Construct

SpecSettings == InitSettings /\ [][NextSettings]_vars

SaveFinished == fn.op = "save" /\ fn.at = "none" /\ fn.x # None

\* C15: save is atomic and a failure is surfaced as absence: during a save
\* and after it the settings file holds the complete previous or the complete
\* new value; a save without fault returns x and a following load returns x;
\* a save that fails with an OSError at the remount, the write or the rename
\* returns None without raising, leaves no temp file, and a following load
\* returns what it returned before; a load of a missing or unparsable file
\* returns None.
C15_AtomicSaveAbsence ==
    /\ (fn.op \in {"saving", "save"} /\ fn.x # None) =>
          fn.file \in {fn.prev, Complete(fn.x)}
    /\ (SaveFinished /\ fn.fault.at = "none") =>
          /\ fn.ret = Returned(fn.x)
          /\ load_parked_distance(fn.file) = Returned(fn.x)
    /\ (SaveFinished /\ fn.fault.at # "none" /\ fn.fault.kind = "OSError") =>
          /\ fn.ret = Returned(None)
          /\ fn.temp = Absent
          /\ load_parked_distance(fn.file) = load_parked_distance(fn.prev)
    /\ (fn.op = "load" /\ fn.file.kind \in {"absent", "garbage"}) =>
          fn.ret = Returned(None)

\* C17: at startup the persisted target is read exactly once, from the
\* store handed to the session: once Precision_Approach has been constructed
\* with a Settings object, its settings attribute is that object,
\* load_parked_distance has been called once on it, and parked_distance is
\* the stored value, or None for an absent or unreadable file.
C17_TargetReadOnceAtStartup ==
    fn.op = "construct" =>
        /\ fn.app.built /\ fn.app.raised = "none"
        /\ fn.app.settings = "Settings"
        /\ fn.app.loads = 1
        /\ fn.app.parked_distance = load_parked_distance(fn.file).v

----------------------------------------------------------------------------
(* The main program of code.py: initialize_system, the tick loop of main,  *)
(* and the cleanup of its finally block.                                   *)
(*                                                                         *)
(* pc is main's position: "start", "loop", "cleanup" (the finally block is *)
(* about to run) or "ended".  hw is the hardware and the module globals.   *)
(* The matrix buffers and the display are kept per matrix, relative to the *)
(* frame of the latest tick: "off", "current" (that frame), "stale" (an    *)
(* earlier frame) or "partial" (a buffer only partly rewritten).           *)

derived_target_pct_original == calculate_derived_target_percentage(RInt(CONFIG_PARKED_DISTANCE_CM), RInt(UPPER_RANGE_CM))

pattern_display_configs == DisplayConfigs(CONFIG_PHASE1_PADDING_COLS, RInt(CONFIG_PHASE2_COLS_PER_ONE_PERCENT))

TOTAL_DISPLAY_COLUMNS == hw.matrices * MATRIX_COLUMNS_PER_UNIT

\* Distances the sensor reports, in cm: at the target, zoomed, exactly at the
\* zoom threshold (47.5 cm is 75%), coarse, and beyond the range.
ReadingInputs == {RInt(CONFIG_PARKED_DISTANCE_CM), RInt(40), Rat(95, 2), RInt(100), RInt(UPPER_RANGE_CM + 10)}

ExceptionKinds == {"OSError", "Other"}

\* What one poll of the sensor meets: a call that raises, no data ready, a
\* distance of None, or a distance.
PollInputs ==
    {[kind |-> "raise", at |-> a, d |-> None] : a \in {"data_ready", "distance", "clear_interrupt"}}
    \cup {[kind |-> k, at |-> "", d |-> None] : k \in {"not_ready", "none"}}
    \cup {[kind |-> "value", at |-> "", d |-> d] : d \in ReadingInputs}

NoPoll == [kind |-> "not_ready", at |-> "", d |-> None]

NoFailure == [sink |-> "none", kind |-> "", at |-> 0]

\* The sink call that fails in a tick, if any: the indicator write, the
\* column write of matrix `at`, or the flush of matrix `at`.
FailureInputs(n) ==
    {NoFailure}
    \cup {[sink |-> "indicator", kind |-> k, at |-> 0] : k \in ExceptionKinds}
    \cup {[sink |-> s, kind |-> k, at |-> j] : s \in {"write", "show"}, k \in ExceptionKinds, j \in 1..n}

\* A plausible slip: the interrupt is cleared only for a distance that is not
\* None.
fetch_tof_sensor_distance_cm_mut(sensor, poll) ==
    IF ~sensor THEN [value |-> RInt(TOF_SENSOR_NOT_INIT), events |-> <<>>]
    ELSE IF poll.kind = "raise" /\ poll.at = "data_ready"
    THEN [value |-> RInt(TOF_READING_ERROR), events |-> <<"data_ready">>]
    ELSE IF poll.kind = "not_ready"
    THEN [value |-> RInt(TOF_DATA_NOT_READY), events |-> <<"data_ready">>]
    ELSE IF poll.kind = "raise" /\ poll.at = "distance"
    THEN [value |-> RInt(TOF_READING_ERROR), events |-> <<"data_ready", "distance">>]
    ELSE IF poll.kind = "raise"
    THEN [value |-> RInt(TOF_READING_ERROR),
          events |-> <<"data_ready", "distance", "clear_interrupt">>]
    ELSE IF poll.kind = "none"
    THEN [value |-> RInt(TOF_READING_NONE), events |-> <<"data_ready", "distance">>]
    ELSE [value |-> poll.d, events |-> <<"data_ready", "distance", "clear_interrupt">>]

fetch_tof_sensor_distance_cm(sensor, poll) ==
    IF ~sensor THEN [value |-> RInt(TOF_SENSOR_NOT_INIT), events |-> <<>>]
    ELSE IF poll.kind = "raise" /\ poll.at = "data_ready"
    THEN [value |-> RInt(TOF_READING_ERROR), events |-> <<"data_ready">>]
    ELSE IF poll.kind = "not_ready"
    THEN [value |-> RInt(TOF_DATA_NOT_READY), events |-> <<"data_ready">>]
    ELSE IF poll.kind = "raise" /\ poll.at = "distance"
    THEN [value |-> RInt(TOF_READING_ERROR), events |-> <<"data_ready", "distance">>]
    ELSE IF poll.kind = "raise"
    THEN [value |-> RInt(TOF_READING_ERROR),
          events |-> <<"data_ready", "distance", "clear_interrupt">>]
    ELSE IF poll.kind = "none"
    THEN [value |-> RInt(TOF_READING_NONE),
          events |-> <<"data_ready", "distance", "clear_interrupt">>]
    ELSE [value |-> poll.d, events |-> <<"data_ready", "distance", "clear_interrupt">>]

\* A plausible slip: the error progress is handed on as it is.
main_progress_mut(current_tof_reading_cm) ==
    LET current_progress_percent ==
            IF RLt(RInt(TOF_READING_ERROR), current_tof_reading_cm)
            THEN calculate_current_tof_percentage(current_tof_reading_cm, RInt(UPPER_RANGE_CM))
            ELSE RInt(TOF_READING_ERROR)
    IN  [ progress |-> current_progress_percent,
          is_error |-> RLe(current_progress_percent, RInt(TOF_READING_ERROR)),
          effective |-> current_progress_percent ]

\* main: the progress of a reading, its classification and the progress
\* handed to the display logic.
main_progress(current_tof_reading_cm) ==
    LET current_progress_percent ==
            IF RLt(RInt(TOF_READING_ERROR), current_tof_reading_cm)
            THEN calculate_current_tof_percentage(current_tof_reading_cm, RInt(UPPER_RANGE_CM))
            ELSE RInt(TOF_READING_ERROR)
        tof_is_error_or_out_of_range == RLe(current_progress_percent, RInt(TOF_READING_ERROR))
    IN  [ progress |-> current_progress_percent,
          is_error |-> tof_is_error_or_out_of_range,
          effective |-> IF tof_is_error_or_out_of_range THEN RInt(0)
                        ELSE current_progress_percent ]

\* main: the colour passed to update_neopixel_strips.
main_indicator_color(tof_is_error_or_out_of_range, effective_progress_for_pattern, zoomed, pattern_details) ==
    IF tof_is_error_or_out_of_range THEN "blue"
    ELSE get_current_progress_color(
             effective_progress_for_pattern, zoomed,
             calculate_phase1_slider_color_change_threshold_original_pct(
                 pattern_details.center_original_pct,
                 RenderConfigs.slider_color_change_point_target_pct,
                 derived_target_pct_original),
             pattern_details, RenderConfigs)

\* ParkingGuideDisplay.update: the progress of a reading, its classification
\* and the progress handed to the display logic.
PGD_update_progress(current_distance_cm, upper_range) ==
    LET d == IF current_distance_cm = None THEN RInt(TOF_READING_ERROR)
             ELSE current_distance_cm
        current_progress_percent == PGD_calculate_current_tof_percentage(d, upper_range)
        tof_is_error == RLe(current_progress_percent, RInt(TOF_READING_ERROR))
    IN  [ progress |-> current_progress_percent,
          is_error |-> tof_is_error,
          effective |-> IF tof_is_error THEN RInt(0) ELSE current_progress_percent ]

Stale(x) == IF x = "current" THEN "stale" ELSE x

\* The phase a tick rendered in, "none" when it rendered nothing.
PhaseOf(t) ==
    IF t.ran /\ t.rendered THEN (IF t.is_phase2 THEN "zoomed" ELSE "coarse") ELSE "none"

Init ==
    /\ pc = "start"
    /\ hw = [ pixels |-> FALSE, sensor |-> FALSE, ranging |-> FALSE, bus |-> FALSE,
              matrices |-> 0, neopixel |-> "off", buffer |-> <<>>, display |-> <<>> ]
    /\ tick = TickIdle
    /\ shutdown = ShutdownIdle
    /\ fn = FnIdle

\* initialize_system and the start of main.  The strips, the sensor and the
\* matrix bus each come up or fail; n matrices answer the scan.  main returns
\* at once when initialize_system returns False.
Initialize ==
    /\ pc = "start"
    /\ \E pixels_ok \in BOOLEAN, sensor_ok \in BOOLEAN, bus_ok \in BOOLEAN,
          n \in 0..MaxMatrices :
          LET found == IF bus_ok THEN n ELSE 0
              ok == bus_ok /\ ~(~sensor_ok /\ found = 0)
          IN  /\ n <= MAX_MATRICES
              /\ (~bus_ok => n = 0)
              /\ hw' = [ pixels |-> pixels_ok, sensor |-> sensor_ok,
                         ranging |-> sensor_ok, bus |-> bus_ok, matrices |-> found,
                         neopixel |-> "off",
                         buffer |-> [i \in 1..found |-> "off"],
                         display |-> [i \in 1..found |-> "off"] ]
              /\ pc' = IF ok THEN "loop" ELSE "ended"
              /\ shutdown' = IF ok THEN shutdown
                             ELSE [cause |-> "init_failed", steps |-> {}, failed |-> {}]
    /\ UNCHANGED <<tick, fn>>

\* The tick's locals: the reading, its progress, the pattern and the colour
\* of the indicator.
main_locals(sensor, poll, total_display_cols) ==
    { [ reading |-> f.value, events |-> f.events, progress |-> pr.progress,
        is_error |-> pr.is_error, effective |-> pr.effective,
        is_phase2 |-> is_phase2_active(pr.effective),
        color |-> main_indicator_color(pr.is_error, pr.effective,
                                       is_phase2_active(pr.effective), pd) ] :
      <<f, pr, pd>> \in
        { <<f, pr, get_pattern_display_details(pr.effective,
                       is_phase2_active(pr.effective), derived_target_pct_original,
                       total_display_cols, pattern_display_configs)>> :
          <<f, pr>> \in { <<f, main_progress(f.value)>> :
                          f \in {fetch_tof_sensor_distance_cm(sensor, poll)} } } }

\* One iteration of main's while loop.
Tick ==
    /\ pc = "loop"
    /\ \E poll \in PollInputs :
       \E t \in main_locals(hw.sensor, poll, TOTAL_DISPLAY_COLUMNS) :
       \E fail \in FailureInputs(hw.matrices) :
          LET n == hw.matrices
              written == fail.sink # "write"
              escaped == fail.sink \in {"write", "show"} /\ fail.kind = "Other"
              shows == IF fail.sink = "write" THEN 0
                       ELSE IF fail.sink = "show" /\ fail.kind = "Other" THEN fail.at
                       ELSE n
              failed == (IF poll.kind = "raise" /\ hw.sensor THEN {"poll"} ELSE {})
                        \cup (IF fail.sink = "none" THEN {} ELSE {fail.sink})
          IN  /\ (~hw.sensor => poll = NoPoll)
              /\ IF TOTAL_DISPLAY_COLUMNS = 0
                 THEN /\ fail = NoFailure
                      /\ tick' = [ ran |-> TRUE, reading |-> t.reading,
                                   progress |-> t.progress, is_error |-> t.is_error,
                                   effective |-> t.effective, rendered |-> FALSE,
                                   is_phase2 |-> FALSE,
                                   prev_phase |-> PhaseOf(tick),
                                   neo |-> "none", events |-> t.events,
                                   failed |-> failed ]
                      /\ UNCHANGED <<pc, hw, shutdown>>
                 ELSE /\ tick' = [ ran |-> TRUE, reading |-> t.reading,
                                   progress |-> t.progress, is_error |-> t.is_error,
                                   effective |-> t.effective, rendered |-> TRUE,
                                   is_phase2 |-> t.is_phase2,
                                   prev_phase |-> PhaseOf(tick),
                                   neo |-> t.color,
                                   events |-> t.events \o <<"indicator">>
                                       \o (IF written THEN <<"set_columns">>
                                           ELSE <<"set_columns_failed">>)
                                       \o [i \in 1..shows |-> "show"],
                                   failed |-> failed ]
                      /\ hw' = [hw EXCEPT
                             !.neopixel = IF hw.pixels /\ fail.sink # "indicator"
                                          THEN t.color ELSE @,
                             !.buffer = [i \in 1..n |->
                                 IF written \/ i < fail.at THEN "current"
                                 ELSE IF i = fail.at THEN "partial"
                                 ELSE Stale(hw.buffer[i])],
                             !.display = [i \in 1..n |->
                                 IF ~written THEN Stale(hw.display[i])
                                 ELSE IF fail.sink # "show" THEN "current"
                                 ELSE IF i < fail.at THEN "current"
                                 ELSE IF i = fail.at THEN Stale(hw.display[i])
                                 ELSE IF fail.kind = "OSError" THEN "current"
                                 ELSE Stale(hw.display[i])]]
                      /\ pc' = IF escaped THEN "cleanup" ELSE "loop"
                      /\ shutdown' = IF escaped
                                     THEN [cause |-> "exception", steps |-> {},
                                           failed |-> {}]
                                     ELSE shutdown
    /\ UNCHANGED fn

\* KeyboardInterrupt while the loop runs.
Interrupt ==
    /\ pc = "loop"
    /\ pc' = "cleanup"
    /\ shutdown' = [cause |-> "interrupt", steps |-> {}, failed |-> {}]
    /\ UNCHANGED <<hw, tick, fn>>

\* The steps the finally block attempts, each with the matrix it concerns
\* (0 when it concerns none).
CleanupSteps ==
    (IF hw.pixels THEN {<<"neopixel_off", 0>>} ELSE {})
    \cup (IF hw.sensor THEN {<<"stop_ranging", 0>>} ELSE {})
    \cup ({"clear_matrix"} \X (1..hw.matrices))
    \cup (IF hw.bus THEN {<<"deinit", 0>>} ELSE {})

NoStep == <<"none", 0>>

\* The finally block of main; at most one of its steps fails.
Cleanup ==
    /\ pc = "cleanup"
    /\ \E bad \in {NoStep} \cup CleanupSteps :
          /\ hw' = [hw EXCEPT
                 !.neopixel = IF hw.pixels /\ bad # <<"neopixel_off", 0>> THEN "off" ELSE @,
                 !.ranging = IF hw.sensor /\ bad # <<"stop_ranging", 0>> THEN FALSE ELSE @,
                 !.buffer = [i \in 1..hw.matrices |->
                     IF bad = <<"clear_matrix", i>> THEN hw.buffer[i] ELSE "off"],
                 !.display = [i \in 1..hw.matrices |->
                     IF bad = <<"clear_matrix", i>> THEN hw.display[i] ELSE "off"],
                 !.bus = IF bad = <<"deinit", 0>> THEN @ ELSE FALSE]
          /\ shutdown' = [shutdown EXCEPT !.steps = CleanupSteps,
                             !.failed = IF bad = NoStep THEN {} ELSE {bad}]
    /\ pc' = "ended"
    /\ tick' = TickIdle
    /\ UNCHANGED fn

Next == Initialize \/ Tick \/ Interrupt \/ Cleanup

Spec == Init /\ [][Next]_vars

----------------------------------------------------------------------------
(* The two polls of the distance sensor, fetch_tof_sensor_distance_cm of   *)
(* code.py and Sensors.get_distance of new_parking_sensor.py, over a       *)
(* sensor that holds one measurement and its data-ready flag until the     *)
(* interrupt is cleared.                                                    *)

\* Sensors.get_distance: the distance when data is ready, after clearing the
\* interrupt; None (the function ends without return) when it is not.  An
\* exception of the sensor leaves the method.
get_distance(poll) ==
    IF poll.kind = "raise" /\ poll.at = "data_ready"
    THEN [value |-> None, raised |-> TRUE, events |-> <<"data_ready">>]
    ELSE IF poll.kind = "not_ready"
    THEN [value |-> None, raised |-> FALSE, events |-> <<"data_ready">>]
    ELSE IF poll.kind = "raise" /\ poll.at = "distance"
    THEN [value |-> None, raised |-> TRUE, events |-> <<"data_ready", "distance">>]
    ELSE IF poll.kind = "raise"
    THEN [value |-> None, raised |-> TRUE,
          events |-> <<"data_ready", "distance", "clear_interrupt">>]
    ELSE [value |-> poll.d, raised |-> FALSE,
          events |-> <<"data_ready", "distance", "clear_interrupt">>]

\* The sensor call that raises during one poll, if any.
PollFaults == {"none", "data_ready", "distance", "clear_interrupt"}

\* What a poll meets on a sensor whose flag is `ready` and whose measurement
\* is d, with the given call raising.
PollOf(ready, d, fault) ==
    IF fault = "data_ready" THEN [kind |-> "raise", at |-> "data_ready", d |-> None]
    ELSE IF ~ready THEN NoPoll
    ELSE IF fault \in {"distance", "clear_interrupt"}
    THEN [kind |-> "raise", at |-> fault, d |-> None]
    ELSE IF d = None THEN [kind |-> "none", at |-> "", d |-> None]
    ELSE [kind |-> "value", at |-> "", d |-> d]

\* The data-ready flag after a poll that made the calls `events`: a
\* clear_interrupt that did not raise takes it down.
ReadyAfter(ready, events, fault) ==
    IF \E i \in DOMAIN events : events[i] = "clear_interrupt" /\ fault # "clear_interrupt"
    THEN FALSE
    ELSE ready

InitPoll ==
    /\ pc = PcIdle /\ hw = HwIdle /\ tick = TickIdle /\ shutdown = ShutdownIdle
    /\ \E sensor \in BOOLEAN :
          fn = [ op |-> "idle", sensor |-> sensor, ready |-> FALSE, d |-> None,
                 was_ready |-> FALSE, fault |-> "none",
                 value |-> None, raised |-> FALSE, events |-> <<>> ]

\* The sensor finishes a measurement: a distance, or none it can report.
Measure ==
    /\ fn.sensor /\ ~fn.ready
    /\ \E d \in ReadingInputs \cup {None} :
          fn' = [fn EXCEPT !.op = "measure", !.ready = TRUE, !.d = d]
    /\ UNCHANGED <<pc, hw, tick, shutdown>>

\* One call of fetch_tof_sensor_distance_cm.
PollFetch ==
    /\ \E fault \in PollFaults :
          \E r \in {fetch_tof_sensor_distance_cm(fn.sensor, PollOf(fn.ready, fn.d, fault))} :
             fn' = [fn EXCEPT !.op = "fetch", !.was_ready = fn.ready, !.fault = fault,
                              !.value = r.value, !.raised = FALSE, !.events = r.events,
                              !.ready = ReadyAfter(fn.ready, r.events, fault)]
    /\ UNCHANGED <<pc, hw, tick, shutdown>>

\* One call of Sensors.get_distance; a Sensors object always has its sensor.
PollGetDistance ==
    /\ fn.sensor
    /\ \E fault \in PollFaults :
          \E r \in {get_distance(PollOf(fn.ready, fn.d, fault))} :
             fn' = [fn EXCEPT !.op = "get_distance", !.was_ready = fn.ready,
                              !.fault = fault,
                              !.value = r.value, !.raised = r.raised, !.events = r.events,
                              !.ready = ReadyAfter(fn.ready, r.events, fault)]
    /\ UNCHANGED <<pc, hw, tick, shutdown>>

NextPoll == Measure \/ PollFetch \/ PollGetDistance

SpecPoll == InitPoll /\ [][NextPoll]_vars

\* How often the call named c was made.
CountOf(events, c) == Cardinality({i \in DOMAIN events : events[i] = c})

\* The last poll read a measurement: the distance call was made and returned.
ReadMeasurement ==
    /\ fn.op \in {"fetch", "get_distance"}
    /\ CountOf(fn.events, "distance") > 0
    /\ fn.fault # "distance"

\* The signal of "no data ready": the code of fetch_tof_sensor_distance_cm,
\* None of get_distance.
NotReadySignal == IF fn.op = "fetch" THEN RInt(TOF_DATA_NOT_READY) ELSE None

\* C16: a poll reads the distance only when the sensor reports data ready;
\* a measurement it reads is followed by exactly one clear_interrupt before
\* the poll returns; when data is not ready the poll returns the not-ready
\* signal without reading or clearing, leaving the flag as it was for the
\* next poll.
C16_PollAcknowledges ==
    fn.op \in {"fetch", "get_distance"} =>
        /\ CountOf(fn.events, "distance") > 0 =>
              /\ fn.was_ready
              /\ fn.events[1] = "data_ready" /\ fn.events[2] = "distance"
        /\ ReadMeasurement =>
              /\ CountOf(fn.events, "clear_interrupt") = 1
              /\ fn.events[Len(fn.events)] = "clear_interrupt"
        /\ ~ReadMeasurement => CountOf(fn.events, "clear_interrupt") = 0
        /\ (fn.sensor /\ ~fn.was_ready /\ fn.fault # "data_ready") =>
              /\ fn.events = <<"data_ready">>
              /\ fn.value = NotReadySignal /\ ~fn.raised
              /\ ~fn.ready

\* A poll has read a measurement that is None and has cleared the interrupt.
C16_Witness ==
    /\ fn.op = "fetch" /\ ReadMeasurement
    /\ fn.d = None /\ fn.fault = "none"
    /\ fn.value = RInt(TOF_READING_NONE)
    /\ ~fn.ready

----------------------------------------------------------------------------
(* The parking session: the state machine that owns the button, the light  *)
(* sensor, the distance sensor, the store and the display, one transition  *)
(* at most per tick.                                                        *)

\* tolerance of Precision_Approach.__init__
TOLERANCE == 10

\* Ticks the harness runs, at most.
MaxTicks == 5

\* Session timing, in ticks: the stability window, the timeout of active
\* ranging, and the cooldown.
STABLE_TICKS == 1
ACTIVE_TIMEOUT_TICKS == 2
COOLDOWN_TICKS == 1

\* Light change that counts as significant.
LIGHT_THRESHOLD == 10

SessionStates ==
    {"AwaitingCalibration", "Calibrating", "MonitoringLight", "ActiveRanging",
     "ShowingScore", "IdleCooldown"}

\* What keys.events.get() gives: no event, a press or a release.
ButtonEvents == {"none", "pressed", "released"}

\* A plausible slip: the wrong edge is taken for the press.
button_pressed_mut(event) == event # "none" /\ event = "released"

\* if event: if event.pressed
button_pressed(event) == event # "none" /\ event = "pressed"

\* The score of an absolute error e against the tolerance bound: 0 within the
\* deadband of 1 cm, else the bucket of e among 9 steps across the band,
\* clamped to 1..9.
compute_score(e, tolerance) ==
    IF RLe(e, RInt(1)) THEN 0
    ELSE LET bucket == Trunc(RDiv(RMul(e, RInt(9)), tolerance))
         IN  IF bucket < 1 THEN 1 ELSE IF bucket > 9 THEN 9 ELSE bucket

\* |a - b|
AbsError(a, b) == IF RLt(a, b) THEN RSub(b, a) ELSE RSub(a, b)

\* The session at startup: MonitoringLight with a persisted target,
\* AwaitingCalibration without.
session_start(target, tolerance) ==
    [ state |-> IF target = None THEN "AwaitingCalibration" ELSE "MonitoringLight",
      target |-> target, tolerance |-> tolerance, now |-> 0, entered |-> 0,
      stable_since |-> -1, last_light |-> 0, score |-> -1,
      buffer |-> BlankBuffer(MATRIX_COLUMNS_PER_UNIT) ]

\* Entering a state records the entry time once.
enter(s, state) == [s EXCEPT !.state = state, !.entered = s.now, !.stable_since = -1]

\* Calibrating: the average of the valid samples is persisted and becomes the
\* target; no valid sample, or a save that returns None, leads back to
\* AwaitingCalibration.
calibrating_step(s, average, saved) ==
    IF average = None \/ ~saved THEN enter(s, "AwaitingCalibration")
    ELSE [enter(s, "MonitoringLight") EXCEPT !.target = average]

\* MonitoringLight: a significant light change triggers one distance probe.
monitoring_step(s, light, d) ==
    LET delta == IF light < s.last_light THEN s.last_light - light ELSE light - s.last_light
        t == [s EXCEPT !.last_light = light]
    IN  IF delta <= LIGHT_THRESHOLD THEN t
        ELSE IF d = None \/ RLt(s.tolerance, AbsError(d, s.target))
        THEN enter(t, "ActiveRanging")
        ELSE enter(t, "IdleCooldown")

\* ActiveRanging: a reading within tolerance starts or keeps the stable-since
\* time, one outside resets it, a missed read leaves it; stable long enough
\* gives ShowingScore, where the score of the error is computed and shown;
\* the timeout gives IdleCooldown.
active_step(s, d) ==
    LET within == d # None /\ RLe(AbsError(d, s.target), s.tolerance)
        since == IF d = None THEN s.stable_since
                 ELSE IF ~within THEN -1
                 ELSE IF s.stable_since >= 0 THEN s.stable_since ELSE s.now
        t == [s EXCEPT !.stable_since = since]
    IN  IF d # None /\ since >= 0 /\ s.now - since >= STABLE_TICKS
        THEN LET score == compute_score(AbsError(d, s.target), s.tolerance)
             IN  [enter(t, "ShowingScore") EXCEPT
                     !.score = score, !.buffer = draw_digit(s.buffer, score, "green")]
        ELSE IF s.now - s.entered >= ACTIVE_TIMEOUT_TICKS
        THEN [enter(t, "IdleCooldown") EXCEPT
                 !.buffer = BlankBuffer(MATRIX_COLUMNS_PER_UNIT)]
        ELSE t

\* ShowingScore: after the hold the display is cleared for IdleCooldown.
showing_step(s) ==
    [enter(s, "IdleCooldown") EXCEPT !.buffer = BlankBuffer(MATRIX_COLUMNS_PER_UNIT)]

\* IdleCooldown: back to MonitoringLight when the cooldown is over.
cooldown_step(s) ==
    IF s.now - s.entered >= COOLDOWN_TICKS THEN enter(s, "MonitoringLight") ELSE s

\* One tick of the session: the button is looked at first, and a press in
\* any state but Calibrating leads to Calibrating; else the state takes its
\* own step.
session_step(s, event, light, d, average, saved) ==
    IF button_pressed(event) /\ s.state # "Calibrating" THEN enter(s, "Calibrating")
    ELSE IF s.state = "AwaitingCalibration" THEN s
    ELSE IF s.state = "Calibrating" THEN calibrating_step(s, average, saved)
    ELSE IF s.state = "MonitoringLight" THEN monitoring_step(s, light, d)
    ELSE IF s.state = "ActiveRanging" THEN active_step(s, d)
    ELSE IF s.state = "ShowingScore" THEN showing_step(s)
    ELSE cooldown_step(s)

\* Inputs of the session harness.
ToleranceInputs == {RInt(TOLERANCE), Rat(5, 2)}
SessionTargetInputs == {None, RInt(CONFIG_PARKED_DISTANCE_CM)}
LightInputs == {0, LIGHT_THRESHOLD, LIGHT_THRESHOLD + 1}
SessionDistanceInputs ==
    {None, RInt(CONFIG_PARKED_DISTANCE_CM), Rat(51, 2), RInt(26), Rat(111, 4),
     RInt(CONFIG_PARKED_DISTANCE_CM + TOLERANCE), RInt(40)}

InitSession ==
    /\ pc = PcIdle /\ hw = HwIdle /\ tick = TickIdle /\ shutdown = ShutdownIdle
    /\ \E target \in SessionTargetInputs, tolerance \in ToleranceInputs :
          fn = [ op |-> "start", event |-> "none", prev_state |-> "none",
                 d |-> None, s |-> session_start(target, tolerance) ]

SessionTick ==
    /\ fn.s.now < MaxTicks
    /\ \E event \in ButtonEvents, light \in LightInputs, d \in SessionDistanceInputs,
          average \in SessionTargetInputs, saved \in BOOLEAN :
          \E t \in {session_step(fn.s, event, light, d, average, saved)} :
             fn' = [ op |-> "tick", event |-> event, prev_state |-> fn.s.state,
                     d |-> d, s |-> [t EXCEPT !.now = fn.s.now + 1] ]
    /\ UNCHANGED <<pc, hw, tick, shutdown>>

NextSession == SessionTick

SpecSession == InitSession /\ [][NextSession]_vars

----------------------------------------------------------------------------
(* The score of an error, computed and handed to show_score.               *)

\* Errors go from 0 to MaxErrorQuarters / 4 cm in steps of a quarter.
MaxErrorQuarters == 48

ErrorInputs == {Rat(k, 4) : k \in 0..MaxErrorQuarters}

\* show_score: the digit in green on the first matrix.
show_score(buffer, number) == draw_digit(buffer, number, "green")

InitScore ==
    /\ pc = PcIdle /\ hw = HwIdle /\ tick = TickIdle /\ shutdown = ShutdownIdle
    /\ \E e \in ErrorInputs, tolerance \in ToleranceInputs :
          fn = [ op |-> "idle", e |-> e, tolerance |-> tolerance, score |-> -1,
                 buffer |-> BlankBuffer(MATRIX_COLUMNS_PER_UNIT) ]

ComputeScore ==
    /\ fn.op = "idle"
    /\ fn' = [fn EXCEPT !.op = "score", !.score = compute_score(fn.e, fn.tolerance)]
    /\ UNCHANGED <<pc, hw, tick, shutdown>>

ShowScore ==
    /\ fn.op = "score"
    /\ fn' = [fn EXCEPT !.op = "shown", !.buffer = show_score(fn.buffer, fn.score)]
    /\ UNCHANGED <<pc, hw, tick, shutdown>>

NextScore == ComputeScore \/ ShowScore

SpecScore == InitScore /\ [][NextScore]_vars

\* The buffer shows something: some pixel is lit.
Lit(buffer) == \E c \in DOMAIN buffer : \E r \in 1..MATRIX_ROWS : buffer[c][r] # "off"

----------------------------------------------------------------------------
(* Properties of the main program.                                         *)

\* C1 as stated: no failure of an external call made during a tick (distance
\* read, column write or flush, indicator write), whatever its kind, ends
\* the tick loop.
C1_LoopSurvivesFailures ==
    (tick.ran /\ tick.failed # {}) => shutdown.cause # "exception"

\* C2 as stated: when the program has ended after ranging was started or a
\* sink was possibly lit (interrupt, exception in the loop, or a failed
\* initialisation after ranging was started), the cleanup has attempted to
\* stop ranging, to set the indicator off and to clear every matrix.
C2_CleanupBeforeExit ==
    (pc = "ended" /\ shutdown.cause # "none") =>
        /\ (hw.sensor => <<"stop_ranging", 0>> \in shutdown.steps)
        /\ (shutdown.cause \in {"interrupt", "exception"} =>
               /\ (hw.pixels => <<"neopixel_off", 0>> \in shutdown.steps)
               /\ \A i \in 1..hw.matrices : <<"clear_matrix", i>> \in shutdown.steps)

\* C3: the four sentinels are pairwise distinct and outside [0,100]; in every
\* tick a sentinel reading is classified as an error, its progress is the
\* error sentinel and no number computed from it, and the progress handed to
\* the display logic is in [0,100]; the class's update does the same for the
\* sentinels and for None.
C3_SentinelsAreErrors ==
    /\ Cardinality(Sentinels) = 4
    /\ \A x \in Sentinels : ~InUnit(x)
    /\ \A x \in Sentinels \cup {None} :
          LET u == PGD_update_progress(x, RInt(UPPER_RANGE_CM))
          IN  u.is_error /\ u.progress = RInt(TOF_READING_ERROR) /\ InUnit(u.effective)
    /\ tick.ran =>
          /\ tick.reading # None
          /\ (tick.reading \in Sentinels =>
                 tick.is_error /\ tick.progress = RInt(TOF_READING_ERROR))
          /\ (tick.is_error => tick.effective = RInt(0))
          /\ InUnit(tick.effective)

C3_Witness ==
    /\ pc = "loop" /\ tick.ran /\ tick.rendered
    /\ tick.reading = RInt(TOF_DATA_NOT_READY)
    /\ tick.is_error /\ tick.effective = RInt(0)

\* C4 as stated: on every tick whose progress is an error sentinel the
\* indicator is set to the alert colour, and on every tick with a valid
\* progress it is set to a colour of the slider colour policy.
C4_IndicatorEveryTick ==
    tick.ran =>
        IF tick.is_error THEN tick.neo = "blue"
        ELSE tick.neo \in { RenderConfigs.slider_start_color,
                            RenderConfigs.slider_end_color_phase1,
                            RenderConfigs.slider_color_after_1st_static_zoomed }

\* C5: in every tick that renders, the phase is zoomed iff that tick's
\* progress is at least the zoom threshold, whatever the phase of the tick
\* before; a reading of 40 cm (R = 190, threshold 75) is rendered zoomed.
C5_PhaseFreshEachTick ==
    (tick.ran /\ tick.rendered) =>
        /\ tick.is_phase2 <=> RLe(RInt(75), tick.effective)
        /\ (tick.reading = RInt(40) => tick.is_phase2)

C5_Witness ==
    /\ tick.ran /\ tick.rendered /\ tick.prev_phase = "coarse"
    /\ tick.reading = RInt(40) /\ tick.effective = Rat(1500, 19)
    /\ tick.is_phase2

\* C13 as stated: within a tick the frame is written to the matrices and
\* flushed before the indicator is written, and a matrix is flushed only
\* after all columns of the frame have been set (stated for the ticks in
\* which no call fails).
C13_FrameBeforeIndicator ==
    (tick.ran /\ tick.rendered /\ tick.failed = {}) =>
        LET ev == tick.events
        IN  /\ \A i, j \in DOMAIN ev :
                  (ev[i] = "indicator" /\ ev[j] \in {"set_columns", "show"}) => j < i
            /\ \A j \in DOMAIN ev :
                  ev[j] = "show" => \E i \in 1..(j - 1) : ev[i] = "set_columns"

====
